---- MODULE Spec2Model ----
(***************************************************************************)
(* Request orchestration layer of jensim-torn-pages: Cache (localStorage    *)
(* entry with a freshness window), RateLimiter (ticket queue, one thunk at  *)
(* a time, cooldown after each settlement, optional per-call timeout),      *)
(* withRetry (bounded re-invocation) and httpWrapper (their composition).   *)
(*                                                                         *)
(* Time is the integer clock `now` (Date.now()).  One action is one event   *)
(* loop task together with the promise reactions (microtasks) it triggers.  *)
(***************************************************************************)
EXTENDS Integers, Sequences, FiniteSets, Bags, TLC

\* ---------------------------------------------------------------- bounds
NumCalls == 2          \* httpWrapper calls made during one behaviour
MaxRetries == 1        \* largest retry.maxRetries given to httpWrapper
MaxTime == 5           \* the clock stops here
CooldownMs == 2        \* RateLimiterOptions.cooldownMs, in clock ticks
MaxStalenessMs == 3    \* CacheOptions.maxStalenessMs, in clock ticks
TimeoutMs == 1         \* HttpWrapperOptions.timeoutMs when one is given
DefaultTimeoutMs == 2  \* RateLimiterOptions.timeoutMs when one is given
RetryBound == 2        \* largest maxRetries given to withRetry on its own
MaxIds == 2            \* longest targetIds list given to fetchStats
CacheTtlMs == 2        \* ffScouter CACHE_TTL_MS, in clock ticks
NumCallers == 5        \* concurrent callers of a sliding-window waitForSlot
MaxCallsPerSecond == 2 \* tornUserBasic RateLimiter.maxCallsPerSecond (10 in the source)
WindowMs == 3          \* tornUserBasic RateLimiter.windowMs, in clock ticks
RateLimitMs == 2       \* tornUserProfileV1 RATE_LIMIT_MS, in clock ticks
RequestTimeoutMs == 2  \* tornUserProfileV1 REQUEST_TIMEOUT_MS, in clock ticks (at most RATE_LIMIT_MS)
NumAttempts == 2       \* concurrent attempts of fetchUserProfileV1 followed through their request
MaxPages == 2          \* pages of bounties the API serves before the last one
UserMaxRetries == 2    \* largest retryConfig.maxRetries given to fetchUserBasic
UserInitialDelayMs == 2 \* largest retryConfig.initialDelayMs given to fetchUserBasic
UserMaxDelayMs == 3    \* largest retryConfig.maxDelayMs given to fetchUserBasic
MaxItems == 3          \* items in localStorage when a clear function is called

\* ---------------------------------------------------------------- values
Null == "null"
Undefined == "undefined"
DataNames == <<"d1", "d2", "d3", "d4">>
\* payload produced by the run function of call c
DataOf(c) == DataNames[c]
StoredBefore == "d0"
RunError == "network error"
TimeoutError == "Rate limiter call timed out"
ErrorMessage == "HTTP error"

Calls == 1..NumCalls
Attempts == 0..MaxRetries

\* DataOrError<T>
Envelope(d, e) == [data |-> d, error |-> e]
\* outcome of awaiting a promise
Resolved(v) == [kind |-> "value", value |-> v, error |-> Null]
Rejected(e) == [kind |-> "throw", value |-> Envelope(Null, Null), error |-> e]

\* ---------------------------------------------------------------- Cache
\* The string kept in localStorage under the storageKey, by what it is:
\*   "none"    no item (getItem returns null)
\*   "entry"   JSON.stringify({ value, timestamp }); value Undefined is the
\*             text {"timestamp":n}, which JSON.stringify writes for set(undefined)
\*   "object"  JSON without a timestamp property: {} (value Undefined) or
\*             {"value":v}
\*   "null"    the JSON text null
\*   "garbage" text that is not JSON, such as 'invalid json'
NoItem == [json |-> "none", value |-> Null, timestamp |-> 0]
Garbage == [json |-> "garbage", value |-> Null, timestamp |-> 0]
JsonNull == [json |-> "null", value |-> Null, timestamp |-> 0]
JsonObject(v) == [json |-> "object", value |-> v, timestamp |-> 0]
\* localStorage.getItem threw
GetItemThrew == [json |-> "threw", value |-> Null, timestamp |-> 0]

\* JSON.stringify({ value, timestamp })
Stringify(entry) == [json |-> "entry", value |-> entry.value, timestamp |-> entry.timestamp]
\* JSON.parse(raw): a SyntaxError (~ok), null (isNull), or an object whose
\* value and timestamp properties may be undefined
Parse(raw) ==
  CASE raw.json = "entry" ->
         [ok |-> TRUE, isNull |-> FALSE, value |-> raw.value,
          hasTimestamp |-> TRUE, timestamp |-> raw.timestamp]
    [] raw.json = "object" ->
         [ok |-> TRUE, isNull |-> FALSE, value |-> raw.value,
          hasTimestamp |-> FALSE, timestamp |-> 0]
    [] raw.json = "null" ->
         [ok |-> TRUE, isNull |-> TRUE, value |-> Null,
          hasTimestamp |-> FALSE, timestamp |-> 0]
    [] OTHER ->
         [ok |-> FALSE, isNull |-> FALSE, value |-> Null,
          hasTimestamp |-> FALSE, timestamp |-> 0]

\* the storage backend: working, or throwing on every read / on every write
Backends == {"ok", "getThrows", "setThrows"}
\* localStorage.getItem(storageKey)
getItem(b, item) == IF b = "getThrows" THEN GetItemThrew ELSE item
\* the item kept after localStorage.setItem(storageKey, text) in place of old
setItem(b, old, text) == IF b = "setThrows" THEN old ELSE text

\* variant of CacheGet: an entry exactly maxStalenessMs old is stale
CacheGetStrict(raw, t) ==
  IF raw.json = "threw" THEN Null
  ELSE IF raw.json = "none" THEN Null
  ELSE LET entry == Parse(raw) IN
       IF ~entry.ok \/ entry.isNull THEN Null
       ELSE IF entry.hasTimestamp /\ t - entry.timestamp >= MaxStalenessMs THEN Null
       ELSE entry.value

\* variant of CacheGet: the age of the entry is not looked at
CacheGetAnyAge(raw, t) ==
  IF raw.json = "threw" THEN Null
  ELSE IF raw.json = "none" THEN Null
  ELSE LET entry == Parse(raw) IN
       IF ~entry.ok \/ entry.isNull THEN Null
       ELSE entry.value

\* Cache.get() at time t, raw being what getItem gave
CacheGet(raw, t) ==
  IF raw.json = "threw" THEN Null              \* catch { return null }
  ELSE IF raw.json = "none" THEN Null          \* if (!raw) return null
  ELSE LET entry == Parse(raw) IN
       IF ~entry.ok THEN Null                  \* SyntaxError, caught
       ELSE IF entry.isNull THEN Null          \* TypeError on entry.timestamp, caught
       \* now - undefined is NaN, and NaN > maxStalenessMs is false
       ELSE IF entry.hasTimestamp /\ t - entry.timestamp > MaxStalenessMs THEN Null
       ELSE entry.value

\* variant of CacheSet: the timestamp is not taken from the clock
CacheSetNoStamp(value, t) == Stringify([value |-> value, timestamp |-> 0])

\* Cache.set(value) at time t: the text handed to setItem
CacheSet(value, t) == Stringify([value |-> value, timestamp |-> t])

StorageError == "QuotaExceededError"
\* variant of CacheSetThrows: no try/catch around setItem
CacheSetThrowsUncaught(b) == b = "setThrows"
\* does Cache.set throw to its caller?  setItem sits in try { } catch
\* (error) { console.error(...) }, so it never does
CacheSetThrows(b) == FALSE

\* ---------------------------------------------------------------- withRetry
\* options.isSuccess: absent, or (r) => r.error === null
IsSuccessOptions == {Undefined, "errorIsNull"}
isSuccess(pred, value) == pred = "errorIsNull" => value.error = Null

\* variant of withRetryStep: every attempt is used up, successful or not
withRetryStepNoStop(attempt, maxRetries, pred, outcome) ==
  IF attempt < maxRetries THEN [op |-> "continue", value |-> Envelope(Null, Null), error |-> Null]
  ELSE IF outcome.kind = "value"
  THEN [op |-> "return", value |-> outcome.value, error |-> Null]
  ELSE [op |-> "throw", value |-> Envelope(Null, Null), error |-> outcome.error]

\* variant of withRetryStep: a rejection is not retried
withRetryStepNoRetryOnThrow(attempt, maxRetries, pred, outcome) ==
  IF outcome.kind = "value"
  THEN IF pred # Undefined /\ ~isSuccess(pred, outcome.value)
       THEN IF attempt < maxRetries
            THEN [op |-> "continue", value |-> Envelope(Null, Null), error |-> Null]
            ELSE [op |-> "return", value |-> outcome.value, error |-> Null]
       ELSE [op |-> "return", value |-> outcome.value, error |-> Null]
  ELSE [op |-> "throw", value |-> Envelope(Null, Null), error |-> outcome.error]

\* variant of withRetryStep: an unsuccessful value at exhaustion is thrown
withRetryStepThrowsUnsuccessful(attempt, maxRetries, pred, outcome) ==
  IF outcome.kind = "value"
  THEN IF pred # Undefined /\ ~isSuccess(pred, outcome.value)
       THEN IF attempt < maxRetries
            THEN [op |-> "continue", value |-> Envelope(Null, Null), error |-> Null]
            ELSE [op |-> "throw", value |-> Envelope(Null, Null), error |-> outcome.value.error]
       ELSE [op |-> "return", value |-> outcome.value, error |-> Null]
  ELSE IF attempt >= maxRetries
       THEN [op |-> "throw", value |-> Envelope(Null, Null), error |-> outcome.error]
       ELSE [op |-> "continue", value |-> Envelope(Null, Null), error |-> Null]

\* variant of withRetryStep: the error of the last attempt is returned as
\* an envelope in place of being thrown
withRetryStepResolvesError(attempt, maxRetries, pred, outcome) ==
  IF outcome.kind = "value"
  THEN IF pred # Undefined /\ ~isSuccess(pred, outcome.value)
       THEN IF attempt < maxRetries
            THEN [op |-> "continue", value |-> Envelope(Null, Null), error |-> Null]
            ELSE [op |-> "return", value |-> outcome.value, error |-> Null]
       ELSE [op |-> "return", value |-> outcome.value, error |-> Null]
  ELSE IF attempt >= maxRetries
       THEN [op |-> "return", value |-> Envelope(Null, outcome.error), error |-> Null]
       ELSE [op |-> "continue", value |-> Envelope(Null, Null), error |-> Null]

\* variant of withRetryStep: at exhaustion an error of the retry layer's
\* own is thrown in place of the last attempt's
withRetryStepOwnError(attempt, maxRetries, pred, outcome) ==
  IF outcome.kind = "value"
  THEN IF pred # Undefined /\ ~isSuccess(pred, outcome.value)
       THEN IF attempt < maxRetries
            THEN [op |-> "continue", value |-> Envelope(Null, Null), error |-> Null]
            ELSE [op |-> "return", value |-> outcome.value, error |-> Null]
       ELSE [op |-> "return", value |-> outcome.value, error |-> Null]
  ELSE IF attempt >= maxRetries
       THEN [op |-> "throw", value |-> Envelope(Null, Null), error |-> "retries exhausted"]
       ELSE [op |-> "continue", value |-> Envelope(Null, Null), error |-> Null]

\* One pass of the loop body of withRetry after `await fn()` settled with
\* outcome: return a value, throw, or continue with the next attempt.
withRetryStep(attempt, maxRetries, pred, outcome) ==
  IF outcome.kind = "value"
  THEN IF pred # Undefined /\ ~isSuccess(pred, outcome.value)
       THEN LET lastResult == outcome.value IN
            IF attempt < maxRetries
            THEN [op |-> "continue", value |-> Envelope(Null, Null), error |-> Null]
            ELSE [op |-> "return", value |-> lastResult, error |-> Null]
       ELSE [op |-> "return", value |-> outcome.value, error |-> Null]
  ELSE LET lastError == outcome.error IN
       IF attempt >= maxRetries
       THEN [op |-> "throw", value |-> Envelope(Null, Null), error |-> lastError]
       ELSE [op |-> "continue", value |-> Envelope(Null, Null), error |-> Null]


\* ---------------------------------------------------------------- state
VARIABLES
  now,            \* Date.now()
  cfg,            \* HttpWrapperOptions of the shared wrapper (fixed at construction)
  queue,          \* RateLimiter.queue: the waiting tickets
  cooldownUntil,  \* RateLimiter.cooldownUntil
  isProcessing,   \* RateLimiter.isProcessing
  defaultTimeoutMs, \* RateLimiter.defaultTimeoutMs: [set, ms], set FALSE when undefined
  timers,         \* pending setTimeout(() => this.processQueue(), ...), by due time
  executing,      \* thunks started by processQueue whose promise has not settled
  timeouts,       \* armed timeout timers of runWithTimeout
  storage,        \* localStorage item under the cache's storageKey
  backend,        \* how the storage backend behaves (fixed for one behaviour)
  caller,         \* per call: the entry point used, "httpWrapper" or "getOrLoad"
  pc,             \* per call: "init", "waiting" (in withRetry), "loading" (in getOrLoad), "done"
  attempt,        \* per call: loop variable of withRetry
  result,         \* per call: how the returned promise settled
  runState,       \* per call and attempt: what became of its invocation of run
  submitted,      \* history: tickets in the order run() pushed them
  started,        \* history: tickets in the order processQueue started them
  lastSettle,     \* history: time the last thunk settled (-1: none yet)
  lastStart,      \* history: time the last thunk started (-1: none yet)
  ahead,          \* history: per call, the tickets waiting when its last ticket was pushed
  waited,         \* history: per call, its last ticket was still queued when run() returned
  writes,         \* history: per call, number of Cache.set calls made by its attempts
  lastData,       \* history: payload and time of the last run or load that resolved with data
  rOpts, rPc, rAttempt, rLog, rResult,  \* withRetry on its own, around an arbitrary fn
  ffLists,        \* ffScouter: the targetIds lists the page passes, one set of ids in
                  \* every order (fixed for one behaviour)
  ffStorage,      \* ffScouter: the localStorage items under CACHE_PREFIX keys
  ffCall,         \* ffScouter: the fetchStats call being served
  ffCount,        \* ffScouter: fetchStats calls made so far
  localStorage,   \* ffScouter: every item of localStorage, in key(i) order
  clearCall,      \* ffScouter: the last clearExpiredCache / clearAllCache call and their number
  callTimestamps, \* tornUserBasic RateLimiter.callTimestamps
  slotPc,         \* per caller of waitForSlot: "idle", "waiting" (in its setTimeout), "done"
  slotWake,       \* per caller: due time of its setTimeout
  slotAt,         \* history: per caller, the time its waitForSlot completed (-1: not yet)
  lastStartTime,  \* ProfileV1RateLimiter.lastStartTime
  startPc,        \* per caller of its waitForSlot: "idle", "sleeping", "done"
  startWake,      \* per caller: due time of its sleep
  startAt,        \* history: per caller, the time its request started (-1: not yet)
  attemptCall,    \* fetchUserProfileV1: per caller, one iteration of its loop (timer, fetch, outcome)
  client,         \* the endpoint client the page calls in this behaviour
  userParams,     \* fetchUserBasic / fetchUserProfileV1: params (fixed for one behaviour)
  retryConfig,    \* fetchUserBasic / fetchUserProfileV1: retryConfig (fixed for one behaviour)
  userCall,       \* fetchUserBasic / fetchUserProfileV1: the call's locals and history
  profileCache,   \* fetchUserProfileV1Cached: the localStorage item of the user's profile
  multiCall,      \* fetchMultipleUsersBasic: the call's parameters, locals and history
  bountyParams,   \* tornBounties clients: apiKey and metadataLink (fixed for one behaviour)
  bountyCall      \* tornBounties clients: the call's locals and history

wrapperVars == <<cfg, caller, queue, cooldownUntil, isProcessing, defaultTimeoutMs, timers, executing, timeouts,
              storage, backend, pc, attempt, result, runState, submitted, started, lastSettle,
              lastStart, ahead, waited, writes, lastData>>
mainVars == <<now, wrapperVars>>
retryVars == <<rOpts, rPc, rAttempt, rLog, rResult>>
statsVars == <<ffLists, ffStorage, ffCall, ffCount, localStorage, clearCall>>
windowVars == <<callTimestamps, slotPc, slotWake, slotAt>>
profileVars == <<lastStartTime, startPc, startWake, startAt, attemptCall>>
userVars == <<userParams, retryConfig, userCall, profileCache, multiCall>>
bountyVars == <<bountyParams, bountyCall>>
clientVars == <<statsVars, windowVars, profileVars, client, userVars, bountyVars>>
vars == <<mainVars, retryVars, clientVars>>

Ticket(c, k) == [call |-> c, att |-> k]
Range(seq) == {seq[i] : i \in 1..Len(seq)}
NoResult == [kind |-> "none", value |-> Envelope(Null, Null), error |-> Null]

\* the state as one value, so that the synchronous steps of one task compose
St == [now |-> now, cfg |-> cfg, caller |-> caller, queue |-> queue, cooldownUntil |-> cooldownUntil,
       isProcessing |-> isProcessing, defaultTimeoutMs |-> defaultTimeoutMs, timers |-> timers, executing |-> executing,
       timeouts |-> timeouts, storage |-> storage, backend |-> backend, pc |-> pc, attempt |-> attempt,
       result |-> result, runState |-> runState, submitted |-> submitted,
       started |-> started, lastSettle |-> lastSettle, lastStart |-> lastStart,
       ahead |-> ahead, waited |-> waited,
       writes |-> writes, lastData |-> lastData]

Commit(s) ==
  /\ now' = s.now /\ cfg' = s.cfg /\ caller' = s.caller /\ queue' = s.queue
  /\ cooldownUntil' = s.cooldownUntil /\ isProcessing' = s.isProcessing
  /\ defaultTimeoutMs' = s.defaultTimeoutMs
  /\ timers' = s.timers /\ executing' = s.executing /\ timeouts' = s.timeouts
  /\ storage' = s.storage /\ backend' = s.backend /\ pc' = s.pc /\ attempt' = s.attempt
  /\ result' = s.result /\ runState' = s.runState /\ submitted' = s.submitted
  /\ started' = s.started /\ lastSettle' = s.lastSettle /\ lastStart' = s.lastStart
  /\ ahead' = s.ahead /\ waited' = s.waited
  /\ writes' = s.writes /\ lastData' = s.lastData

\* ---------------------------------------------------------------- RateLimiter + httpWrapper
RECURSIVE processQueue(_), thunk(_, _), settle(_, _, _), run(_, _)

\* variant of push: the ticket jumps the queue
pushFront(q, tk) == <<tk>> \o q

\* this.queue.push(thunk)
push(q, tk) == Append(q, tk)

\* RateLimiter.run for the current attempt of call c: take a ticket, pump
run(s, c) ==
  LET tk == Ticket(c, s.attempt[c])
      s1 == processQueue([s EXCEPT !.queue = push(@, tk),
                                   !.submitted = Append(@, tk),
                                   !.ahead[c] = Range(s.queue)])
  IN [s1 EXCEPT !.waited[c] = tk \in Range(s1.queue)]

\* variant of recheck: the cache is not read again after the wait
recheckNever(s) == Null

\* the rate-limited function of httpWrapper up to `await run()`:
\* the value it returns without calling run, or Null when it calls run
recheck(s) == IF s.cfg.hasCache THEN CacheGet(getItem(s.backend, s.storage), s.now) ELSE Null

\* an optional number of milliseconds
NoTimeout == [set |-> FALSE, ms |-> 0]
Millis(n) == [set |-> TRUE, ms |-> n]

\* variant of timeoutMs: the limiter's default wins over the per-call value
timeoutMsDefaultFirst(s) ==
  IF s.defaultTimeoutMs.set THEN s.defaultTimeoutMs
  ELSE IF s.cfg.hasTimeout THEN Millis(TimeoutMs) ELSE NoTimeout

\* const timeoutMs = options?.timeoutMs ?? this.defaultTimeoutMs, where
\* httpWrapper passes { timeoutMs } when its own options carry one
timeoutMs(s) == IF s.cfg.hasTimeout THEN Millis(TimeoutMs) ELSE s.defaultTimeoutMs

\* variant of thunk: a ticket served by the re-check leaves the cooldown as it was
thunkHitKeepsCooldown(s, tk) ==
  LET c == tk.call
      s1 == [s EXCEPT !.executing = @ \cup {tk}, !.started = Append(@, tk),
                      !.lastStart = s.now]
      cachedAgain == recheck(s)
  IN IF cachedAgain # Null
     THEN [settle(s1, tk, Resolved(Envelope(cachedAgain, Null)))
             EXCEPT !.cooldownUntil = s.cooldownUntil]
     ELSE [s1 EXCEPT !.runState[c][tk.att] = "pending",
                     !.timeouts = IF timeoutMs(s).set
                                  THEN @ \cup {[tk |-> tk, due |-> s.now + timeoutMs(s).ms]}
                                  ELSE @]

\* next(): the thunk runs runWithTimeout(), which calls fn()
thunk(s, tk) ==
  LET c == tk.call
      s1 == [s EXCEPT !.executing = @ \cup {tk}, !.started = Append(@, tk),
                      !.lastStart = s.now]
      cachedAgain == recheck(s)
  IN IF cachedAgain # Null
     THEN settle(s1, tk, Resolved(Envelope(cachedAgain, Null)))
     ELSE [s1 EXCEPT !.runState[c][tk.att] = "pending",
                     !.timeouts = IF timeoutMs(s).set
                                  THEN @ \cup {[tk |-> tk, due |-> s.now + timeoutMs(s).ms]}
                                  ELSE @]

\* variant of finally: processQueue is not scheduled again
finallyNoWake(s) ==
  [s EXCEPT !.cooldownUntil = s.now + CooldownMs,
            !.isProcessing = FALSE]

\* the .finally() callback of processQueue
finally(s) ==
  [s EXCEPT !.cooldownUntil = s.now + CooldownMs,
            !.isProcessing = FALSE,
            !.timers = @ (+) SetToBag({s.now + CooldownMs})]

\* variant of settle: the settled ticket stays among the executing ones
settleKeepsExecuting(s, tk, outcome) ==
  LET c == tk.call
      s1 == [s EXCEPT !.timeouts = {x \in @ : x.tk # tk},
                      !.lastSettle = s.now]
      step == withRetryStep(s.attempt[c], s.cfg.maxRetries, s.cfg.isSuccess, outcome)
      s2 == IF step.op = "continue"
            THEN run([s1 EXCEPT !.attempt[c] = @ + 1], c)
            ELSE [s1 EXCEPT !.pc[c] = "done",
                            !.result[c] = IF step.op = "return"
                                          THEN Resolved(step.value)
                                          ELSE Rejected(step.error)]
  IN finally(s2)

\* The thunk's promise settles with outcome: run()'s promise is resolved or
\* rejected, withRetry's loop continues (its reaction is queued first), then
\* the finally callback runs.
settle(s, tk, outcome) ==
  LET c == tk.call
      s1 == [s EXCEPT !.executing = @ \ {tk},
                      !.timeouts = {x \in @ : x.tk # tk},
                      !.lastSettle = s.now]
      step == withRetryStep(s.attempt[c], s.cfg.maxRetries, s.cfg.isSuccess, outcome)
      s2 == IF step.op = "continue"
            THEN run([s1 EXCEPT !.attempt[c] = @ + 1], c)
            ELSE [s1 EXCEPT !.pc[c] = "done",
                            !.result[c] = IF step.op = "return"
                                          THEN Resolved(step.value)
                                          ELSE Rejected(step.error)]
  IN finally(s2)

\* variant of processQueue: isProcessing is not consulted
processQueueOverlap(s) ==
  IF Len(s.queue) = 0 THEN s
  ELSE IF s.now < s.cooldownUntil
  THEN [s EXCEPT !.timers = @ (+) SetToBag({s.cooldownUntil})]
  ELSE thunk([s EXCEPT !.isProcessing = TRUE, !.queue = Tail(@)], Head(s.queue))

\* variant of processQueue: cooldownUntil is not consulted
processQueueNoCooldown(s) ==
  IF Len(s.queue) = 0 THEN s
  ELSE IF s.isProcessing THEN s
  ELSE thunk([s EXCEPT !.isProcessing = TRUE, !.queue = Tail(@)], Head(s.queue))

\* variant of processQueue: queue.pop() in place of queue.shift()
processQueueLast(s) ==
  IF Len(s.queue) = 0 THEN s
  ELSE IF s.isProcessing THEN s
  ELSE IF s.now < s.cooldownUntil
  THEN [s EXCEPT !.timers = @ (+) SetToBag({s.cooldownUntil})]
  ELSE thunk([s EXCEPT !.isProcessing = TRUE,
                       !.queue = SubSeq(@, 1, Len(@) - 1)], s.queue[Len(s.queue)])

\* variant of processQueue: the ticket stays in the queue after it is started
processQueueKeepsTicket(s) ==
  IF Len(s.queue) = 0 THEN s
  ELSE IF s.isProcessing THEN s
  ELSE IF s.now < s.cooldownUntil
  THEN [s EXCEPT !.timers = @ (+) SetToBag({s.cooldownUntil})]
  ELSE thunk([s EXCEPT !.isProcessing = TRUE], Head(s.queue))

\* RateLimiter.processQueue
processQueue(s) ==
  IF Len(s.queue) = 0 THEN s
  ELSE IF s.isProcessing THEN s
  ELSE IF s.now < s.cooldownUntil
  THEN \* setTimeout(() => this.processQueue(), this.cooldownUntil - now)
       [s EXCEPT !.timers = @ (+) SetToBag({s.cooldownUntil})]
  ELSE thunk([s EXCEPT !.isProcessing = TRUE, !.queue = Tail(@)], Head(s.queue))

\* what run() of call c settles with, by kind
RunKinds == {"data", "err", "throw"}
RunOutcome(c, kind) ==
  CASE kind = "data" -> Resolved(Envelope(DataOf(c), Null))
    [] kind = "err" -> Resolved(Envelope(Null, ErrorMessage))
    [] kind = "throw" -> Rejected(RunError)

\* variant of storeResult: a null-data envelope is stored too
storeResultAlways(s, c, outcome) ==
  IF outcome.kind = "value" /\ s.cfg.hasCache
  THEN [s EXCEPT !.storage = setItem(s.backend, @, CacheSet(outcome.value.data, s.now)),
                 !.writes[c] = @ + 1]
  ELSE s

\* variant of storeResult: nothing is stored once the call has no thunk executing
storeResultWhileExecuting(s, c, outcome) ==
  IF /\ outcome.kind = "value" /\ outcome.value.data # Null /\ s.cfg.hasCache
     /\ \E tk \in s.executing : tk.call = c
  THEN [s EXCEPT !.storage = setItem(s.backend, @, CacheSet(outcome.value.data, s.now)),
                 !.writes[c] = @ + 1]
  ELSE s

\* the rate-limited function of httpWrapper after `await run()`:
\* if (result.data !== null && cache) cache.set(result.data)
storeResult(s, c, outcome) ==
  IF outcome.kind = "value" /\ outcome.value.data # Null /\ s.cfg.hasCache
  THEN [s EXCEPT !.storage = setItem(s.backend, @, CacheSet(outcome.value.data, s.now)),
                 !.writes[c] = @ + 1]
  ELSE s

\* what the function awaiting run() or load() goes on with once its
\* `if (result.data !== null) cache.set(result.data)` has run
afterStore(s, outcome) ==
  IF /\ outcome.kind = "value" /\ outcome.value.data # Null /\ s.cfg.hasCache
     /\ CacheSetThrows(s.backend)
  THEN Rejected(StorageError)
  ELSE outcome

\* variant of httpWrapper: no cache check before queueing
httpWrapperNoPrecheck(s, c) ==
  run([s EXCEPT !.pc[c] = "waiting", !.caller[c] = "httpWrapper"], c)

\* httpWrapper(options, run) of call c, up to its first suspension
httpWrapper(s, c) ==
  LET cached == IF s.cfg.hasCache THEN CacheGet(getItem(s.backend, s.storage), s.now) ELSE Null IN
  IF cached # Null
  THEN [s EXCEPT !.pc[c] = "done", !.caller[c] = "httpWrapper",
                 !.result[c] = Resolved(Envelope(cached, Null))]
  ELSE run([s EXCEPT !.pc[c] = "waiting", !.caller[c] = "httpWrapper"], c)

\* Cache.getOrLoad(load) of call c, up to `await load()`
getOrLoad(s, c) ==
  LET cached == CacheGet(getItem(s.backend, s.storage), s.now) IN
  IF cached # Null
  THEN [s EXCEPT !.pc[c] = "done", !.caller[c] = "getOrLoad",
                 !.result[c] = Resolved(Envelope(cached, Null))]
  ELSE [s EXCEPT !.pc[c] = "loading", !.caller[c] = "getOrLoad",
                 !.runState[c][0] = "pending"]

\* variant of getOrLoadResume: a fresh entry written meanwhile is kept
getOrLoadResumeFirstWins(s, c, outcome) ==
  LET s1 == IF /\ outcome.kind = "value" /\ outcome.value.data # Null
               /\ CacheGet(getItem(s.backend, s.storage), s.now) = Null
            THEN [s EXCEPT !.storage = setItem(s.backend, @, CacheSet(outcome.value.data, s.now)),
                           !.writes[c] = @ + 1]
            ELSE s
  IN [s1 EXCEPT !.pc[c] = "done", !.result[c] = afterStore(s, outcome)]

\* Cache.getOrLoad after `await load()` settled with outcome
getOrLoadResume(s, c, outcome) ==
  LET s1 == IF outcome.kind = "value" /\ outcome.value.data # Null
            THEN [s EXCEPT !.storage = setItem(s.backend, @, CacheSet(outcome.value.data, s.now)),
                           !.writes[c] = @ + 1]
            ELSE s
  IN [s1 EXCEPT !.pc[c] = "done", !.result[c] = afterStore(s, outcome)]

\* ---------------------------------------------------------------- ffScouter
TargetIds == {1, 2, 10}
IdLists == UNION {[1..n -> TargetIds] : n \in 0..MaxIds}
ApiKeys == {"", " ", "key"}
\* String.prototype.trim
trim(s) == IF s = " " THEN "" ELSE s
CACHE_PREFIX == "ffscouter_cache_"
Digit == <<"0", "1", "2", "3", "4", "5", "6", "7", "8", "9">>

\* Number.prototype.toString of a non-negative integer, as its characters
RECURSIVE toString(_)
toString(n) ==
  IF n < 10 THEN <<Digit[n + 1]>> ELSE toString(n \div 10) \o <<Digit[(n % 10) + 1]>>

\* Array.prototype.join
RECURSIVE join(_, _)
join(ids, sep) ==
  IF ids = <<>> THEN <<>>
  ELSE IF Len(ids) = 1 THEN toString(ids[1])
  ELSE toString(ids[1]) \o <<sep>> \o join(Tail(ids), sep)

\* the compareFn (a, b) => a - b
compare(a, b) == a - b

\* [...targetIds].sort(compare): a stable sort of a copy
RECURSIVE sort(_)
sort(ids) ==
  IF ids = <<>> THEN <<>>
  ELSE LET a == Head(ids)
           rest == sort(Tail(ids))
       IN SelectSeq(rest, LAMBDA b : compare(b, a) < 0) \o <<a>>
          \o SelectSeq(rest, LAMBDA b : compare(b, a) >= 0)

getCacheKeyUnsorted(targetIds) == <<CACHE_PREFIX>> \o join(targetIds, "_")

getCacheKey(targetIds) == <<CACHE_PREFIX>> \o join(sort(targetIds), "_")

\* getCachedData: [data, storage]; an expired item is removed
getCachedData(items, targetIds, t) ==
  LET cacheKey == getCacheKey(targetIds)
      cached == {i \in items : i.key = cacheKey}
  IN IF cached = {} THEN [data |-> Null, storage |-> items]
     ELSE LET cachedData == CHOOSE i \in cached : TRUE IN
          IF t - cachedData.timestamp > CacheTtlMs
          THEN [data |-> Null, storage |-> items \ cached]
          ELSE [data |-> cachedData.data, storage |-> items]

\* setCachedData: localStorage.setItem(cacheKey, JSON.stringify({ data, timestamp }));
\* ids is history, the list the item was written for
setCachedData(items, targetIds, data, t) ==
  LET cacheKey == getCacheKey(targetIds) IN
  {i \in items : i.key # cacheKey}
  \cup {[key |-> cacheKey, data |-> data, timestamp |-> t, ids |-> targetIds]}

\* what the FFScouter request may do: a JSON array, other JSON, a non-2xx
\* status, fetch or json() throwing an Error or something else
StatsResponses ==
  {[kind |-> "array", data |-> d] : d \in {"stats"}}
  \cup {[kind |-> k, data |-> Null] : k \in {"notArray", "status", "throwError", "throwOther"}}

\* the envelope fetchStats returns for a response
statsEnvelope(response) ==
  CASE response.kind = "array" -> Envelope(response.data, Null)
    [] response.kind = "notArray" -> Envelope(Null, "Invalid response format: expected an array")
    [] response.kind = "status" -> Envelope(Null, "HTTP error! status: 500")
    [] response.kind = "throwError" -> Envelope(Null, "Failed to fetch stats: Network error")
    [] response.kind = "throwOther" -> Envelope(Null, "Failed to fetch stats: Unknown error")

NoEnvelope == Envelope(Undefined, Undefined)
\* the call's parameters and history: requests counts the calls of fetch,
\* reads the calls of getCachedData
NoStatsCall == [pc |-> "idle", apiKey |-> "", hasIds |-> FALSE, targetIds |-> <<>>,
                requests |-> 0, reads |-> 0, cachedBefore |-> FALSE, result |-> NoEnvelope]

\* clearExpiredCache / clearAllCache, which take every key of localStorage
startsWith(key, prefix) == Len(key) > 0 /\ key[1] = prefix
\* the text '' (falsy, and a SyntaxError for JSON.parse)
EmptyText == [json |-> "empty", value |-> Null, timestamp |-> 0]
StorageKeys == {<<CACHE_PREFIX, "1">>, <<CACHE_PREFIX, "2">>, <<"other_key">>}
NoClearCall == [name |-> "none", n |-> 0, threw |-> FALSE]

\* localStorage.removeItem(key)
removeItem(items, key) == SelectSeq(items, LAMBDA it : it.key # key)

\* the loop of clearExpiredCache from index i: the keysToRemove it collects
RECURSIVE expiredKeys(_, _, _)
expiredKeys(items, i, t) ==
  IF i > Len(items) THEN <<>>
  ELSE LET key == items[i].key
           cached == items[i].raw
           cachedData == Parse(cached)
           expired == IF startsWith(key, CACHE_PREFIX) /\ cached # EmptyText
                      THEN IF ~cachedData.ok \/ cachedData.isNull
                           THEN TRUE  \* JSON.parse or the read of null.timestamp threw
                           ELSE cachedData.hasTimestamp /\ t - cachedData.timestamp > CacheTtlMs
                      ELSE FALSE
       IN (IF expired THEN <<key>> ELSE <<>>) \o expiredKeys(items, i + 1, t)

\* the loop of clearAllCache from index i
RECURSIVE prefixedKeys(_, _)
prefixedKeys(items, i) ==
  IF i > Len(items) THEN <<>>
  ELSE (IF startsWith(items[i].key, CACHE_PREFIX) THEN <<items[i].key>> ELSE <<>>)
       \o prefixedKeys(items, i + 1)

\* keysToRemove.forEach((key) => localStorage.removeItem(key))
RECURSIVE removeEach(_, _)
removeEach(items, keysToRemove) ==
  IF keysToRemove = <<>> THEN items
  ELSE removeEach(removeItem(items, Head(keysToRemove)), Tail(keysToRemove))

clearAllCache(items) == removeEach(items, prefixedKeys(items, 1))

clearExpiredCache(items, t) == removeEach(items, expiredKeys(items, 1, t))

StatsIdle ==
  /\ ffLists = {<<>>} /\ ffStorage = {} /\ ffCall = NoStatsCall /\ ffCount = 0
  /\ localStorage = <<>> /\ clearCall = NoClearCall

\* ---------------------------------------------------------------- tornUserBasic RateLimiter
Callers == 1..NumCallers

\* this.callTimestamps.filter(timestamp => t - timestamp < this.windowMs)
filterWindow(timestamps, t) == SelectSeq(timestamps, LAMBDA timestamp : t - timestamp < WindowMs)

WindowIdle ==
  /\ callTimestamps = <<>>
  /\ slotPc = [c \in Callers |-> "idle"]
  /\ slotWake = [c \in Callers |-> 0]
  /\ slotAt = [c \in Callers |-> -1]

\* ---------------------------------------------------------------- ProfileV1RateLimiter
\* lastStartTime = 0 is the epoch of Date.now(); time 0 of the model is far
\* later than RATE_LIMIT_MS after it
\* lastStatus before any response: undefined
NoStatus == 0

\* one iteration of the loop of fetchUserProfileV1: attempt and lastStatus as
\* the iteration finds them, abortDue the due time of the setTimeout that
\* calls controller.abort(); history: enteredAt the time the iteration
\* began, issuedAt the time fetch was called, endedAt the time fetch
\* settled, outcome "response" or "AbortError", retriable the answer of
\* shouldRetry in the catch block, retried whether the loop continues
NoAttempt ==
  [pc |-> "idle", attempt |-> 0, lastStatus |-> NoStatus, abortDue |-> -1,
   enteredAt |-> -1, issuedAt |-> -1, endedAt |-> -1, outcome |-> "none",
   retriable |-> FALSE, retried |-> FALSE]

ProfileIdle ==
  /\ lastStartTime = -RateLimitMs
  /\ startPc = [c \in Callers |-> "idle"]
  /\ startWake = [c \in Callers |-> 0]
  /\ startAt = [c \in Callers |-> -1]
  /\ attemptCall = [c \in Callers |-> NoAttempt]

\* ---------------------------------------------------------------- fetchUserBasic, fetchUserProfileV1
MAX_RETRIES == 3
PROFILE_INITIAL_DELAY_MS == 500
PROFILE_MAX_DELAY_MS == 5000
PROFILE_BACKOFF_MULTIPLIER == 2

\* DEFAULT_RETRY_CONFIG of tornUserProfileV1
DEFAULT_RETRY_CONFIG ==
  [maxRetries |-> MAX_RETRIES, initialDelayMs |-> PROFILE_INITIAL_DELAY_MS,
   maxDelayMs |-> PROFILE_MAX_DELAY_MS, backoffMultiplier |-> PROFILE_BACKOFF_MULTIPLIER]

\* the retryConfig values a caller of fetchUserBasic passes
RetryConfigs ==
  [maxRetries : 0..UserMaxRetries, initialDelayMs : 1..UserInitialDelayMs,
   maxDelayMs : 1..UserMaxDelayMs, backoffMultiplier : {1, 2}]

\* a thrown value: an Error with its name and message, or something else
\* (isError FALSE: the string 'boom')
NoError == [thrown |-> FALSE, isError |-> FALSE, name |-> "", message |-> ""]
Thrown(name, message) == [thrown |-> TRUE, isError |-> TRUE, name |-> name, message |-> message]
ThrownOther == [thrown |-> TRUE, isError |-> FALSE, name |-> "", message |-> ""]
FailedToFetch == Thrown("TypeError", "Failed to fetch")
LoadFailed == Thrown("TypeError", "Load failed")
UnexpectedToken == Thrown("SyntaxError", "Unexpected token < in JSON")
AbortError == Thrown("AbortError", "The operation was aborted.")

\* message.toLowerCase() includes 'fetch', 'network', 'timeout',
\* 'econnrefused' or 'etimedout'
includesSignature(message) ==
  message \in {"Failed to fetch", "Network request failed", "timeout of 250ms exceeded"}

RetriableStatuses == {429, 500, 502, 503}

\* variant of shouldRetry: 503 is not among the retried statuses
shouldRetryNot503(c, status, error) ==
  IF c # "fetchUserBasic" /\ error.thrown /\ error.name = "AbortError" THEN TRUE
  ELSE IF error.thrown /\ error.isError /\ includesSignature(error.message) THEN TRUE
  ELSE IF status # NoStatus THEN status \in {429, 500, 502}
  ELSE FALSE

\* variant of shouldRetry: the status is not consulted for a thrown error
shouldRetryThrownBySignature(c, status, error) ==
  IF c # "fetchUserBasic" /\ error.thrown /\ error.name = "AbortError" THEN TRUE
  ELSE IF error.thrown /\ error.isError /\ includesSignature(error.message) THEN TRUE
  ELSE IF status # NoStatus /\ ~error.thrown THEN status \in RetriableStatuses
  ELSE FALSE

\* shouldRetry of tornUserBasic and of tornUserProfileV1 (which also looks at
\* the error's name); status NoStatus is undefined
shouldRetry(c, status, error) ==
  IF c # "fetchUserBasic" /\ error.thrown /\ error.name = "AbortError" THEN TRUE
  ELSE IF error.thrown /\ error.isError /\ includesSignature(error.message) THEN TRUE
  ELSE IF status # NoStatus THEN status \in RetriableStatuses
  ELSE FALSE

RECURSIVE pow(_, _)
pow(b, e) == IF e = 0 THEN 1 ELSE b * pow(b, e - 1)
min(a, b) == IF a <= b THEN a ELSE b

\* Math.min(initialDelayMs * Math.pow(backoffMultiplier, attempt), maxDelayMs)
delay(config, k) == min(config.initialDelayMs * pow(config.backoffMultiplier, k), config.maxDelayMs)

\* what one request may do: a response that is not ok, a response whose
\* JSON is the payload or a Torn API error object, json() throwing, fetch
\* throwing (the abort of the 250ms timer only where a signal is passed)
HttpStatuses == {404, 429, 500, 503}
Response(kind, status, error) == [kind |-> kind, status |-> status, error |-> error]
UserResponses(c) ==
  {Response("http", s, NoError) : s \in HttpStatuses}
  \cup {Response("data", 200, NoError), Response("apiError", 200, NoError),
        Response("jsonThrows", 200, UnexpectedToken)}
  \cup {Response("fetchThrows", NoStatus, e) :
          e \in {FailedToFetch, LoadFailed, ThrownOther}
                \cup (IF c = "fetchUserBasic" THEN {} ELSE {AbortError})}

HttpError(status) ==
  CASE status = 404 -> "HTTP error! status: 404"
    [] status = 429 -> "HTTP error! status: 429"
    [] status = 500 -> "HTTP error! status: 500"
    [] status = 503 -> "HTTP error! status: 503"
TornApiError == "Torn API Error (2): Incorrect key"
FailedPrefix(c) ==
  IF c = "fetchUserBasic" THEN "Failed to fetch user basic info: "
  ELSE "Failed to fetch user profile: "
UserData == "profile"

\* the locals of one call, and history: requests counts the calls of fetch,
\* slots the calls of waitForSlot, reads the cache reads, slept the last
\* delay passed to sleep (-1: none), response the last response, retriable
\* whether every attempt so far failed with a retriable condition, received
\* the response.status values in the order they came
NoUserCall ==
  [pc |-> "idle", attempt |-> 0, lastError |-> Null, lastStatus |-> NoStatus,
   requests |-> 0, slots |-> 0, reads |-> 0, slept |-> -1, received |-> <<>>,
   response |-> Response("none", NoStatus, NoError), retriable |-> TRUE, result |-> NoEnvelope]

\* return { data, error }
userReturn(call, envelope) == [call EXCEPT !.pc = "done", !.result = envelope]
\* await sleep(delay); continue
userSleep(call, config) == [call EXCEPT !.pc = "sleeping", !.slept = delay(config, call.attempt)]
\* the next iteration of the loop: attempt++, waitForSlot, fetch; after the
\* last iteration the return that follows the loop
userNextAttempt(c, call, config) ==
  IF call.attempt + 1 <= config.maxRetries
  THEN [call EXCEPT !.pc = "fetching", !.attempt = @ + 1, !.slots = @ + 1, !.requests = @ + 1]
  ELSE userReturn([call EXCEPT !.attempt = @ + 1], Envelope(Null, call.lastError))

\* the condition an attempt failed with is one of the retriable ones
RetriableCondition(c, response) ==
  \/ response.kind = "http" /\ response.status \in RetriableStatuses
  \/ response.kind = "fetchThrows" /\ response.error.isError
     /\ (includesSignature(response.error.message)
         \/ (c # "fetchUserBasic" /\ response.error.name = "AbortError"))

\* the body of the retry loop from the response on, in fetchUserBasic
\* (tornUserBasic.ts:192-252) and fetchUserProfileV1 (tornUserProfileV1.ts:239-285)
userResponds(c, config, call, response) ==
  LET status == IF response.kind = "fetchThrows" THEN call.lastStatus ELSE response.status
      seen == [call EXCEPT !.lastStatus = status, !.response = response, !.slept = -1,
                           !.received = IF response.kind = "fetchThrows" THEN @
                                        ELSE Append(@, response.status),
                           !.retriable = @ /\ RetriableCondition(c, response)]
  IN CASE response.kind = "http" ->
            LET failed == [seen EXCEPT !.lastError = HttpError(response.status)] IN
            IF shouldRetry(c, response.status, NoError) /\ call.attempt < config.maxRetries
            THEN userSleep(failed, config)
            ELSE userReturn(failed, Envelope(Null, failed.lastError))
       [] response.kind = "apiError" -> userReturn(seen, Envelope(Null, TornApiError))
       [] response.kind = "data" -> userReturn(seen, Envelope(UserData, Null))
       [] response.kind \in {"jsonThrows", "fetchThrows"} ->
            IF response.error.isError
            THEN LET failed == [seen EXCEPT !.lastError = FailedPrefix(c) \o response.error.message] IN
                 IF shouldRetry(c, status, response.error) /\ call.attempt < config.maxRetries
                 THEN userSleep(failed, config)
                 ELSE IF c = "fetchUserBasic"
                         /\ ~(call.attempt >= config.maxRetries \/ ~shouldRetry(c, status, response.error))
                 THEN userNextAttempt(c, failed, config)
                 ELSE userReturn(failed, Envelope(Null, failed.lastError))
            ELSE LET failed == [seen EXCEPT !.lastError = FailedPrefix(c) \o "Unknown error"] IN
                 IF c = "fetchUserBasic"
                    /\ ~(call.attempt >= config.maxRetries \/ ~shouldRetry(c, status, response.error))
                 THEN userNextAttempt(c, failed, config)
                 ELSE userReturn(failed, Envelope(Null, failed.lastError))

\* the parameter check that opens fetchUserBasic / fetchUserProfileV1: the
\* error message, or Null when the parameters pass
UserIds == {"missing", "123456"}
UserParams == [apiKey : ApiKeys, id : UserIds]
\* variant of userValidation: only the API key is checked
userValidationKeyOnly(c, params) ==
  IF params.apiKey = "" \/ trim(params.apiKey) = "" THEN "API key is required" ELSE Null

userValidation(c, params) ==
  IF params.apiKey = "" \/ trim(params.apiKey) = "" THEN "API key is required"
  ELSE IF params.id = "missing"
  THEN (IF c = "fetchUserBasic" THEN "Target user ID is required" ELSE "User ID is required")
  ELSE Null

\* fetchUserProfileV1OneAttempt of the variant built on RateLimiter and
\* withRetry: every outcome of the request becomes an envelope
fetchUserProfileV1OneAttempt(response) ==
  CASE response.kind = "http" -> Envelope(Null, HttpError(response.status))
    [] response.kind = "apiError" -> Envelope(Null, TornApiError)
    [] response.kind = "data" -> Envelope(UserData, Null)
    [] response.kind \in {"jsonThrows", "fetchThrows"} ->
         Envelope(Null, FailedPrefix("fetchUserProfileV1")
                        \o (IF response.error.isError THEN response.error.message ELSE "Unknown error"))

\* the item under the profile's cache key: none, or JSON of { data, timestamp }
\* younger than maxAgeMs or not; data Undefined is JSON without a data property
NoProfileItem == [stored |-> FALSE, data |-> Null, fresh |-> FALSE]
ProfileItem(data, fresh) == [stored |-> TRUE, data |-> data, fresh |-> fresh]
ProfileItems ==
  {NoProfileItem} \cup {ProfileItem(d, f) : d \in {"cachedProfile", Undefined}, f \in BOOLEAN}

\* getCachedProfile(userId, maxAgeMs)
getCachedProfile(item) ==
  IF ~item.stored THEN Null
  ELSE IF ~item.fresh THEN Null
  ELSE item.data

\* if (result.data) setCachedProfile(userId, result.data), after the request
storeProfile(c, item, call) ==
  IF c = "fetchUserProfileV1Cached" /\ call.pc = "done" /\ call.requests >= 1
     /\ call.result.data # Null
  THEN ProfileItem(call.result.data, TRUE)
  ELSE item

\* fetchMultipleUsersBasic: the ids a list may hold (one of them is no id)
MultiIds == UserIds \cup {"456"}
TargetLists == UNION {[1..n -> MultiIds] : n \in 0..MaxIds}
\* `${targetId}`
idText(id) == IF id = "missing" THEN "undefined" ELSE id

\* errors.join('; ')
RECURSIVE joinText(_, _)
joinText(texts, sep) ==
  IF texts = <<>> THEN ""
  ELSE IF Len(texts) = 1 THEN texts[1]
  ELSE texts[1] \o sep \o joinText(Tail(texts), sep)

\* i, results and errors are the locals; history: progress holds the
\* arguments of the calls of onProgress, asked the ids fetchUserBasic was
\* called with and outcomes what it returned, in call order
NoMultiCall ==
  [pc |-> "idle", targetIds |-> <<>>, hasProgress |-> FALSE, i |-> 0,
   results |-> <<>>, errors |-> <<>>, progress |-> <<>>,
   asked |-> <<>>, outcomes |-> <<>>, result |-> NoEnvelope]

\* variant of multiReturn: the error is returned only with an empty data list
multiReturnErrorOrData(call) ==
  IF Len(call.errors) > 0 /\ Len(call.results) = 0
  THEN [call EXCEPT !.pc = "done", !.result = Envelope("results", joinText(call.errors, "; "))]
  ELSE [call EXCEPT !.pc = "done", !.result = Envelope("results", Null)]

\* the returns after the loop; data is the list results
multiReturn(call) ==
  IF Len(call.errors) > 0 /\ Len(call.results) = 0
  THEN [call EXCEPT !.pc = "done", !.result = Envelope("results", joinText(call.errors, "; "))]
  ELSE [call EXCEPT !.pc = "done",
                    !.result = Envelope("results", IF Len(call.errors) > 0
                                                   THEN joinText(call.errors, "; ") ELSE Null)]

\* the body of the loop after fetchUserBasic returned result for
\* targetIds[i]; the payload is the profile of the user asked for
multiCollect(call, result_) ==
  LET id == call.targetIds[call.i + 1]
      pushed == IF result_.error \notin {Null, Undefined, ""}
                THEN [call EXCEPT !.errors = Append(@, "User " \o idText(id) \o ": " \o result_.error)]
                ELSE IF result_.data \notin {Null, Undefined}
                THEN [call EXCEPT !.results = Append(@, [id |-> id, data |-> result_.data])]
                ELSE call
  IN [pushed EXCEPT !.progress = IF call.hasProgress
                                 THEN Append(@, <<call.i + 1, Len(call.targetIds)>>) ELSE @,
                    !.i = @ + 1]

UserIdle ==
  /\ userParams = [apiKey |-> "", id |-> "missing"]
  /\ retryConfig = DEFAULT_RETRY_CONFIG
  /\ userCall = NoUserCall
  /\ profileCache = NoProfileItem
  /\ multiCall = NoMultiCall

\* ---------------------------------------------------------------- tornBounties
\* metadataLink values: empty, blank, without limit, with a limit that is
\* not a number, well-formed
MetadataLinks == {"", " ", "offset=100", "limit=abc&offset=100", "limit=100&offset=100"}
\* the limit given to fetchAllBounties; 100 is the default
Limits == {0, 1, 100}
BountyParams == [apiKey : ApiKeys, link : MetadataLinks, limit : Limits]

\* new URLSearchParams(metadataLink).get(name): the text, or Null
searchParam(link, name) ==
  CASE link = "offset=100" -> (IF name = "offset" THEN "100" ELSE Null)
    [] link = "limit=abc&offset=100" -> (IF name = "limit" THEN "abc" ELSE "100")
    [] link = "limit=100&offset=100" -> "100"
    [] OTHER -> Null
\* isNaN(parseInt(text, 10))
parsesToNaN(text) == text \notin {"100"}

\* the checks of fetchBountiesByLink before it calls fetchBounties: the
\* error message, or Null
linkValidation(params) ==
  IF params.apiKey = "" \/ trim(params.apiKey) = "" THEN "API key is required"
  ELSE IF params.link = "" \/ trim(params.link) = "" THEN "Metadata link is required"
  ELSE IF searchParam(params.link, "limit") = Null \/ searchParam(params.link, "offset") = Null
  THEN "Invalid metadata link format: missing limit or offset"
  ELSE IF parsesToNaN(searchParam(params.link, "limit")) \/ parsesToNaN(searchParam(params.link, "offset"))
  THEN "Invalid metadata link format: limit or offset not a number"
  ELSE Null

\* the check that opens fetchBounties
bountiesValidation(params) ==
  IF params.apiKey = "" \/ trim(params.apiKey) = "" THEN "API key is required" ELSE Null

\* what the bounties request may do: a page (with or without a next link,
\* with or without bounties), JSON without a bounties list, a status that is
\* not ok, a Torn API error object, fetch or json() throwing
BountyLists == {<<>>, <<"b1">>, <<"b2", "b3">>}
BountyResponses ==
  {[kind |-> "page", next |-> n, empty |-> bs = <<>>, bounties |-> bs] :
     n \in BOOLEAN, bs \in BountyLists}
  \cup {[kind |-> k, next |-> FALSE, empty |-> TRUE, bounties |-> <<>>] :
          k \in {"noList", "http", "apiError", "throwError", "throwOther"}}

\* the envelope fetchBounties returns for a response
bountiesEnvelope(response) ==
  CASE response.kind = "page" -> Envelope("bounties", Null)
    [] response.kind = "noList" -> Envelope("object", Null)
    [] response.kind = "http" -> Envelope(Null, "HTTP error! status: 500")
    [] response.kind = "apiError" -> Envelope(Null, TornApiError)
    [] response.kind = "throwError" -> Envelope(Null, "Failed to fetch bounties: Failed to fetch")
    [] response.kind = "throwOther" -> Envelope(Null, "Failed to fetch bounties: Unknown error")

\* offset and allBounties are the locals of fetchAllBounties; history:
\* offsets are the offsets requested, pages the responses received, in order
NoBountyCall == [pc |-> "idle", requests |-> 0, result |-> NoEnvelope,
                 offset |-> 0, allBounties |-> <<>>, offsets |-> <<>>, pages |-> <<>>]

\* after fetchBounties returned: the client returns its envelope, or
\* fetchAllBounties goes on to the next page, returns what it gathered, or
\* throws on result.data.bounties of a payload without the list
bountiesRespondsNextOnly(c, limit, call, response) ==
  LET result_ == bountiesEnvelope(response)
      got == [call EXCEPT !.pages = Append(@, response)]
  IN
  IF c # "fetchAllBounties" THEN [got EXCEPT !.pc = "done", !.result = result_]
  ELSE IF result_.error # Null THEN [got EXCEPT !.pc = "done", !.result = Envelope(Null, result_.error)]
  ELSE IF response.kind = "noList" THEN [got EXCEPT !.pc = "threw"]
  ELSE IF response.next
  THEN [got EXCEPT !.pc = "fetching", !.requests = @ + 1,
                   !.allBounties = @ \o response.bounties,
                   !.offset = @ + limit, !.offsets = Append(@, call.offset + limit)]
  ELSE [got EXCEPT !.pc = "done", !.result = Envelope("allBounties", Null),
                   !.allBounties = @ \o response.bounties, !.offset = @ + limit]

bountiesResponds(c, limit, call, response) ==
  LET result_ == bountiesEnvelope(response)
      got == [call EXCEPT !.pages = Append(@, response)]
  IN
  IF c # "fetchAllBounties" THEN [got EXCEPT !.pc = "done", !.result = result_]
  ELSE IF result_.error # Null THEN [got EXCEPT !.pc = "done", !.result = Envelope(Null, result_.error)]
  ELSE IF response.kind = "noList" THEN [got EXCEPT !.pc = "threw"]
  ELSE IF response.next /\ ~response.empty
  THEN [got EXCEPT !.pc = "fetching", !.requests = @ + 1,
                   !.allBounties = @ \o response.bounties,
                   !.offset = @ + limit, !.offsets = Append(@, call.offset + limit)]
  ELSE [got EXCEPT !.pc = "done", !.result = Envelope("allBounties", Null),
                   !.allBounties = @ \o response.bounties, !.offset = @ + limit]

BountyIdle ==
  /\ bountyParams = [apiKey |-> "", link |-> "", limit |-> 100]
  /\ bountyCall = NoBountyCall

ClientIdle == StatsIdle /\ WindowIdle /\ ProfileIdle /\ client = "none" /\ UserIdle /\ BountyIdle

\* ---------------------------------------------------------------- actions
Configs == [maxRetries : 0..MaxRetries, isSuccess : IsSuccessOptions,
            hasTimeout : BOOLEAN, hasCache : BOOLEAN]

RetryIdle ==
  /\ rOpts = [maxRetries |-> 0, isSuccess |-> Undefined]
  /\ rPc = "idle" /\ rAttempt = 0 /\ rLog = <<>> /\ rResult = NoResult

\* the limiter, the calls and the histories right after construction
MainStart ==
  /\ now = 0
  /\ queue = <<>> /\ cooldownUntil = 0 /\ isProcessing = FALSE
  /\ timers = EmptyBag /\ executing = {} /\ timeouts = {}
  /\ caller = [c \in Calls |-> "none"]
  /\ pc = [c \in Calls |-> "init"]
  /\ attempt = [c \in Calls |-> 0]
  /\ result = [c \in Calls |-> NoResult]
  /\ runState = [c \in Calls |-> [k \in Attempts |-> "none"]]
  /\ submitted = <<>> /\ started = <<>> /\ lastSettle = -1 /\ lastStart = -1
  /\ ahead = [c \in Calls |-> {}]
  /\ waited = [c \in Calls |-> FALSE]
  /\ writes = [c \in Calls |-> 0]
  /\ lastData = [value |-> Null, at |-> 0]

MainInit ==
  /\ MainStart
  /\ cfg \in Configs
  /\ storage \in {NoItem, CacheSet(StoredBefore, 0)}
  /\ backend = "ok"
  /\ defaultTimeoutMs = NoTimeout

Init == MainInit /\ RetryIdle /\ ClientIdle

\* a caller invokes the wrapper (calls are made in the order of their numbers)
Call(c) ==
  /\ pc[c] = "init"
  /\ \A b \in Calls : b < c => pc[b] # "init"
  /\ Commit(httpWrapper(St, c))
  /\ UNCHANGED <<retryVars, clientVars>>

\* the promise returned by run() of attempt k of call c settles
RunSettles(c, k, kind) ==
  /\ caller[c] = "httpWrapper"
  /\ runState[c][k] = "pending"
  /\ LET outcome == RunOutcome(c, kind)
         s1 == storeResult([St EXCEPT !.runState[c][k] = kind,
                                      !.lastData = IF kind = "data"
                                                   THEN [value |-> DataOf(c), at |-> now]
                                                   ELSE @],
                           c, outcome)
     IN Commit(IF Ticket(c, k) \in executing
               THEN settle(s1, Ticket(c, k), afterStore(St, outcome))
               ELSE s1)
  /\ UNCHANGED <<retryVars, clientVars>>

\* a caller with a Cache of its own calls cache.getOrLoad(load)
GetOrLoad(c) ==
  /\ cfg.hasCache
  /\ pc[c] = "init"
  /\ \A b \in Calls : b < c => pc[b] # "init"
  /\ Commit(getOrLoad(St, c))
  /\ UNCHANGED <<retryVars, clientVars>>

\* the promise returned by load() of getOrLoad call c settles
LoadSettles(c, kind) ==
  /\ pc[c] = "loading"
  /\ LET outcome == RunOutcome(c, kind) IN
     Commit(getOrLoadResume([St EXCEPT !.runState[c][0] = kind,
                                       !.lastData = IF kind = "data"
                                                    THEN [value |-> DataOf(c), at |-> now]
                                                    ELSE @],
                            c, outcome))
  /\ UNCHANGED <<retryVars, clientVars>>

\* the timer of runWithTimeout fires before fn's promise settled
TimeoutFires(x) ==
  /\ x \in timeouts
  /\ now >= x.due
  /\ Commit(settle(St, x.tk, Rejected(TimeoutError)))
  /\ UNCHANGED <<retryVars, clientVars>>

\* a setTimeout(() => this.processQueue(), ...) callback runs
TimerFires(t) ==
  /\ BagIn(t, timers)
  /\ now >= t
  /\ Commit(processQueue([St EXCEPT !.timers = @ (-) SetToBag({t})]))
  /\ UNCHANGED <<retryVars, clientVars>>

\* the clock advances once every timer that is due has run
Tick ==
  /\ now < MaxTime
  /\ \A d \in 0..now : ~BagIn(d, timers)
  /\ \A x \in timeouts : x.due > now
  /\ now' = now + 1
  /\ UNCHANGED <<cfg, caller, queue, cooldownUntil, isProcessing, defaultTimeoutMs, timers, executing, timeouts,
                 storage, backend, pc, attempt, result, runState, submitted, started, lastSettle,
                 lastStart, ahead, waited, writes, lastData>>
  /\ UNCHANGED <<retryVars, clientVars>>

Next ==
  \/ \E c \in Calls : Call(c)
  \/ \E c \in Calls, k \in Attempts, kind \in RunKinds : RunSettles(c, k, kind)
  \/ \E x \in timeouts : TimeoutFires(x)
  \/ \E t \in 0..(MaxTime + CooldownMs) : TimerFires(t)
  \/ Tick

Spec == Init /\ [][Next]_vars

\* callers that use Cache.getOrLoad directly, next to the wrapper's callers
LoadNext ==
  \/ \E c \in Calls : GetOrLoad(c)
  \/ \E c \in Calls, kind \in RunKinds : LoadSettles(c, kind)

AllNext == Next \/ LoadNext

SpecAll == Init /\ [][AllNext]_vars

\* only callers of Cache.getOrLoad: the wrapper's options play no part
CacheInit ==
  /\ Init
  /\ cfg = [maxRetries |-> 0, isSuccess |-> Undefined, hasTimeout |-> FALSE, hasCache |-> TRUE]

CacheNext == LoadNext \/ Tick

SpecCache == CacheInit /\ [][CacheNext]_vars

\* ---------------------------------------------------------------- RateLimiter on its own
\* run(fn, options) called directly: the wrapper adds neither cache nor
\* retry; the limiter may have a default timeout, the calls a timeout of
\* their own
LimiterInit ==
  /\ MainStart
  /\ cfg \in {o \in Configs : ~o.hasCache /\ o.maxRetries = 0 /\ o.isSuccess = Undefined}
  /\ storage = NoItem
  /\ backend = "ok"
  /\ defaultTimeoutMs \in {NoTimeout, Millis(DefaultTimeoutMs)}
  /\ RetryIdle
  /\ ClientIdle

SpecLimiter == LimiterInit /\ [][Next]_vars

\* the limiter with its scheduling: a timer that is due runs, time passes
\* while a timer is pending (bounded by the timers the calls can arm), and
\* a fn that no timeout applies to settles
PendingTick ==
  /\ LET due == BagToSet(timers) \cup {x.due : x \in timeouts} IN
     /\ due # {}
     /\ \A d \in due : d > now
     /\ now' = CHOOSE d \in due : \A e \in due : d <= e
  /\ UNCHANGED <<wrapperVars, retryVars, clientVars>>

SomeTimerFires == \E t \in BagToSet(timers) : TimerFires(t)
SomeTimeoutFires == \E x \in timeouts : TimeoutFires(x)
\* fn's promise is fulfilled or rejected
FnSettles == \E c \in Calls, k \in Attempts, kind \in {"data", "throw"} : RunSettles(c, k, kind)

FairNext ==
  \/ \E c \in Calls : Call(c)
  \/ FnSettles
  \/ SomeTimeoutFires
  \/ SomeTimerFires
  \/ PendingTick

SpecLimiterFair ==
  /\ LimiterInit /\ [][FairNext]_vars
  /\ WF_vars(PendingTick) /\ WF_vars(SomeTimerFires) /\ WF_vars(SomeTimeoutFires)
  /\ WF_vars(~timeoutMs(St).set /\ FnSettles)

\* ---------------------------------------------------------------- Cache over any storage
\* what the storageKey may hold when the page loads: nothing, an entry of an
\* earlier session, or text that some other writer left there
StoredItems ==
  {NoItem, CacheSet(StoredBefore, 0), Garbage, JsonNull,
   JsonObject(Undefined), JsonObject(StoredBefore),
   Stringify([value |-> Undefined, timestamp |-> 0])}

\* a wrapper with a cache and no timeout, over any stored text and backend
StoreInit ==
  /\ MainStart
  /\ cfg \in {o \in Configs : o.hasCache /\ ~o.hasTimeout /\ o.maxRetries = 0 /\ o.isSuccess = Undefined}
  /\ storage \in StoredItems
  /\ backend \in Backends
  /\ defaultTimeoutMs = NoTimeout
  /\ RetryIdle
  /\ ClientIdle

\* the same callers; no timeout timer is ever armed
StoreNext ==
  \/ \E c \in Calls : Call(c)
  \/ \E c \in Calls, k \in Attempts, kind \in RunKinds : RunSettles(c, k, kind)
  \/ \E t \in 0..(MaxTime + CooldownMs) : TimerFires(t)
  \/ Tick
  \/ LoadNext

SpecStore == StoreInit /\ [][StoreNext]_vars


\* ---------------------------------------------------------------- withRetry on its own
\* what an arbitrary fn may settle with
FnOutcomes ==
  {Resolved(Envelope(d, Null)) : d \in {"d1", "d2"}}
  \cup {Resolved(Envelope(Null, e)) : e \in {ErrorMessage, "Torn API Error"}}
  \cup {Rejected(e) : e \in {RunError, TimeoutError}}

MainIdle ==
  /\ MainInit
  /\ cfg = [maxRetries |-> 0, isSuccess |-> Undefined, hasTimeout |-> FALSE, hasCache |-> FALSE]
  /\ storage = NoItem

RetryInit ==
  /\ MainIdle
  /\ rOpts \in [maxRetries : 0..RetryBound, isSuccess : IsSuccessOptions]
  /\ rPc = "idle" /\ rAttempt = 0 /\ rLog = <<>> /\ rResult = NoResult
  /\ ClientIdle

\* withRetry(fn, options) is called: attempt 0 invokes fn
RetryCall ==
  /\ rPc = "idle"
  /\ rPc' = "awaiting"
  /\ UNCHANGED <<rOpts, rAttempt, rLog, rResult>>
  /\ UNCHANGED <<mainVars, clientVars>>

\* the pending invocation of fn settles; the loop returns, throws or
\* invokes fn again
RetrySettles(outcome) ==
  /\ rPc = "awaiting"
  /\ rLog' = Append(rLog, outcome)
  /\ LET step == withRetryStep(rAttempt, rOpts.maxRetries, rOpts.isSuccess, outcome) IN
     CASE step.op = "continue" ->
            /\ rAttempt' = rAttempt + 1
            /\ UNCHANGED <<rPc, rResult>>
       [] step.op = "return" ->
            /\ rPc' = "returned"
            /\ rResult' = Resolved(step.value)
            /\ UNCHANGED rAttempt
       [] step.op = "throw" ->
            /\ rPc' = "threw"
            /\ rResult' = Rejected(step.error)
            /\ UNCHANGED rAttempt
  /\ UNCHANGED rOpts
  /\ UNCHANGED <<mainVars, clientVars>>

RetryNext ==
  \/ RetryCall
  \/ \E outcome \in FnOutcomes : RetrySettles(outcome)

SpecRetry == RetryInit /\ [][RetryNext]_vars

\* ---------------------------------------------------------------- fetchStats
\* b holds the elements of a, each as often as a does
Occurrences(a, x) == Cardinality({i \in 1..Len(a) : a[i] = x})
IsPermutation(a, b) ==
  /\ Len(a) = Len(b)
  /\ \A x \in TargetIds : Occurrences(a, x) = Occurrences(b, x)

Orderings(a) == {b \in IdLists : IsPermutation(a, b)}

\* the item setCachedData wrote for a permutation of targetIds is stored and fresh
CachedFresh(targetIds) ==
  \E i \in ffStorage :
    /\ IsPermutation(i.ids, targetIds)
    /\ now - i.timestamp <= CacheTtlMs

StatsInit ==
  /\ MainIdle /\ RetryIdle
  /\ ffLists \in {Orderings(a) : a \in IdLists}
  /\ ffStorage = {} /\ ffCall = NoStatsCall /\ ffCount = 0
  /\ localStorage = <<>> /\ clearCall = NoClearCall
  /\ WindowIdle /\ ProfileIdle /\ client = "fetchStats" /\ UserIdle /\ BountyIdle

\* fetchStats({ apiKey, targetIds }) up to its first await
FetchStats(apiKey, hasIds, targetIds) ==
  /\ ffCall.pc \in {"idle", "done"}
  /\ ffCount < NumCalls
  /\ ffCount' = ffCount + 1
  /\ LET call == [NoStatsCall EXCEPT !.apiKey = apiKey, !.hasIds = hasIds, !.targetIds = targetIds,
                                     !.cachedBefore = hasIds /\ CachedFresh(targetIds)]
         got == getCachedData(ffStorage, targetIds, now)
     IN IF apiKey = "" \/ trim(apiKey) = ""
        THEN /\ ffCall' = [call EXCEPT !.pc = "done", !.result = Envelope(Null, "API key is required")]
             /\ UNCHANGED ffStorage
        ELSE IF ~hasIds \/ Len(targetIds) = 0
        THEN /\ ffCall' = [call EXCEPT !.pc = "done",
                                       !.result = Envelope(Null, "At least one target ID is required")]
             /\ UNCHANGED ffStorage
        ELSE IF got.data # Null
        THEN /\ ffCall' = [call EXCEPT !.pc = "done", !.reads = 1, !.result = Envelope(got.data, Null)]
             /\ ffStorage' = got.storage
        ELSE /\ ffCall' = [call EXCEPT !.pc = "fetching", !.reads = 1, !.requests = 1]
             /\ ffStorage' = got.storage
  /\ UNCHANGED <<ffLists, localStorage, clearCall>>
  /\ UNCHANGED <<mainVars, retryVars, windowVars, profileVars, client, userVars, bountyVars>>

\* the request settles and fetchStats returns
StatsResponds(response) ==
  /\ ffCall.pc = "fetching"
  /\ ffCall' = [ffCall EXCEPT !.pc = "done", !.result = statsEnvelope(response)]
  /\ ffStorage' = IF response.kind = "array"
                  THEN setCachedData(ffStorage, ffCall.targetIds, response.data, now)
                  ELSE ffStorage
  /\ UNCHANGED <<ffLists, ffCount, localStorage, clearCall>>
  /\ UNCHANGED <<mainVars, retryVars, windowVars, profileVars, client, userVars, bountyVars>>

\* time passes
StatsTick ==
  /\ now < MaxTime
  /\ now' = now + 1
  /\ UNCHANGED <<wrapperVars, retryVars, clientVars>>

StatsNext ==
  \/ \E apiKey \in ApiKeys, targetIds \in ffLists : FetchStats(apiKey, TRUE, targetIds)
  \/ \E apiKey \in ApiKeys : FetchStats(apiKey, FALSE, <<>>)
  \/ \E response \in StatsResponses : StatsResponds(response)
  \/ StatsTick

SpecStats == StatsInit /\ [][StatsNext]_vars

\* ---------------------------------------------------------------- clearExpiredCache, clearAllCache
\* the texts an item may hold: entries written at 0 or 1, JSON without a
\* timestamp, the JSON text null, text that is not JSON, the empty text
StorageTexts ==
  {Stringify([value |-> "stats", timestamp |-> t]) : t \in 0..1}
  \cup {JsonObject("stats"), JsonNull, Garbage, EmptyText}

\* every localStorage of at most MaxItems items with distinct keys
Storages ==
  {items \in UNION {[1..n -> [key : StorageKeys, raw : StorageTexts]] : n \in 0..MaxItems} :
     \A i, j \in 1..Len(items) : items[i].key = items[j].key => i = j}

ClearInit ==
  /\ MainIdle /\ RetryIdle
  /\ ffLists = {<<>>} /\ ffStorage = {} /\ ffCall = NoStatsCall /\ ffCount = 0
  /\ localStorage \in Storages /\ clearCall = NoClearCall
  /\ WindowIdle /\ ProfileIdle /\ client = "clearCache" /\ UserIdle /\ BountyIdle

\* clearExpiredCache()
ClearExpiredCache ==
  /\ clearCall.n < NumCalls
  /\ localStorage' = clearExpiredCache(localStorage, now)
  /\ clearCall' = [name |-> "clearExpiredCache", n |-> clearCall.n + 1, threw |-> FALSE]
  /\ UNCHANGED <<ffLists, ffStorage, ffCall, ffCount>>
  /\ UNCHANGED <<mainVars, retryVars, windowVars, profileVars, client, userVars, bountyVars>>

\* clearAllCache()
ClearAllCache ==
  /\ clearCall.n < NumCalls
  /\ localStorage' = clearAllCache(localStorage)
  /\ clearCall' = [name |-> "clearAllCache", n |-> clearCall.n + 1, threw |-> FALSE]
  /\ UNCHANGED <<ffLists, ffStorage, ffCall, ffCount>>
  /\ UNCHANGED <<mainVars, retryVars, windowVars, profileVars, client, userVars, bountyVars>>

ClearNext ==
  \/ ClearExpiredCache
  \/ ClearAllCache
  \/ StatsTick

SpecClear == ClearInit /\ [][ClearNext]_vars

\* ---------------------------------------------------------------- waitForSlot (tornUserBasic)
WindowInit == MainIdle /\ RetryIdle /\ ClientIdle

\* a caller enters waitForSlot (callers arrive in the order of their numbers):
\* it records its call at once, or arms a timer for the time the oldest
\* recorded call leaves the window
WaitForSlot(c) ==
  /\ slotPc[c] = "idle"
  /\ \A b \in Callers : b < c => slotPc[b] # "idle"
  /\ LET kept == filterWindow(callTimestamps, now) IN
     IF Len(kept) >= MaxCallsPerSecond
     THEN LET oldestCall == kept[1]
              waitTime == WindowMs - (now - oldestCall) + 1
          IN IF waitTime > 0
             THEN /\ callTimestamps' = kept
                  /\ slotPc' = [slotPc EXCEPT ![c] = "waiting"]
                  /\ slotWake' = [slotWake EXCEPT ![c] = now + waitTime]
                  /\ UNCHANGED slotAt
             ELSE /\ callTimestamps' = Append(filterWindow(kept, now), now)
                  /\ slotPc' = [slotPc EXCEPT ![c] = "done"]
                  /\ slotAt' = [slotAt EXCEPT ![c] = now]
                  /\ UNCHANGED slotWake
     ELSE /\ callTimestamps' = Append(kept, now)
          /\ slotPc' = [slotPc EXCEPT ![c] = "done"]
          /\ slotAt' = [slotAt EXCEPT ![c] = now]
          /\ UNCHANGED slotWake
  /\ UNCHANGED <<mainVars, retryVars, statsVars, profileVars, client, userVars, bountyVars>>

\* the caller's timer fires: it drops the expired timestamps and records its call
SlotTimerFires(c) ==
  /\ slotPc[c] = "waiting"
  /\ slotWake[c] <= now
  /\ callTimestamps' = Append(filterWindow(callTimestamps, now), now)
  /\ slotPc' = [slotPc EXCEPT ![c] = "done"]
  /\ slotAt' = [slotAt EXCEPT ![c] = now]
  /\ UNCHANGED slotWake
  /\ UNCHANGED <<mainVars, retryVars, statsVars, profileVars, client, userVars, bountyVars>>

\* time passes, once every due timer has fired
WindowTick ==
  /\ now < MaxTime
  /\ \A c \in Callers : slotPc[c] = "waiting" => slotWake[c] > now
  /\ now' = now + 1
  /\ UNCHANGED <<wrapperVars, retryVars, clientVars>>

WindowNext ==
  \/ \E c \in Callers : WaitForSlot(c)
  \/ \E c \in Callers : SlotTimerFires(c)
  \/ WindowTick

SpecWindow == WindowInit /\ [][WindowNext]_vars

\* ---------------------------------------------------------------- waitForSlot (tornUserProfileV1)
ProfileInit == MainIdle /\ RetryIdle /\ ClientIdle

\* an attempt of fetchUserProfileV1 enters waitForSlot (in the order of the
\* callers' numbers): it starts its request at once, or sleeps for the rest
\* of the 500ms that began at lastStartTime
ProfileWaitForSlot(c) ==
  /\ startPc[c] = "idle"
  /\ \A b \in Callers : b < c => startPc[b] # "idle"
  /\ LET elapsed == now - lastStartTime IN
     IF elapsed < RateLimitMs
     THEN /\ startPc' = [startPc EXCEPT ![c] = "sleeping"]
          /\ startWake' = [startWake EXCEPT ![c] = now + (RateLimitMs - elapsed)]
          /\ UNCHANGED <<lastStartTime, startAt>>
     ELSE /\ startPc' = [startPc EXCEPT ![c] = "done"]
          /\ lastStartTime' = now
          /\ startAt' = [startAt EXCEPT ![c] = now]
          /\ UNCHANGED startWake
  /\ UNCHANGED <<mainVars, retryVars, statsVars, windowVars, client, userVars, bountyVars>>

\* the sleep ends: lastStartTime = Date.now() and the request starts
ProfileSleepEnds(c) ==
  /\ startPc[c] = "sleeping"
  /\ startWake[c] <= now
  /\ startPc' = [startPc EXCEPT ![c] = "done"]
  /\ lastStartTime' = now
  /\ startAt' = [startAt EXCEPT ![c] = now]
  /\ UNCHANGED startWake
  /\ UNCHANGED <<mainVars, retryVars, statsVars, windowVars, client, userVars, bountyVars>>

\* time passes, once every due sleep has ended
ProfileTick ==
  /\ now < MaxTime
  /\ \A c \in Callers : startPc[c] = "sleeping" => startWake[c] > now
  /\ now' = now + 1
  /\ UNCHANGED <<wrapperVars, retryVars, clientVars>>

ProfileNext ==
  \/ \E c \in Callers : ProfileWaitForSlot(c) /\ UNCHANGED attemptCall
  \/ \E c \in Callers : ProfileSleepEnds(c) /\ UNCHANGED attemptCall
  \/ ProfileTick

SpecProfile == ProfileInit /\ [][ProfileNext]_vars

\* ---------------------------------------------------------------- fetchUserProfileV1: one attempt
\* controller.signal.aborted at time t: the timer armed at the top of the
\* iteration has fired (timers due at the same time fire in the order they
\* were set, and this one is set before the sleep of waitForSlot)
aborted(call, t) == call.abortDue <= t

\* fetch rejects with the AbortError: the catch block asks shouldRetry and
\* either sleeps and continues or returns the error
rejected(call, t) ==
  LET retriable == shouldRetry("fetchUserProfileV1", call.lastStatus, AbortError) IN
  [call EXCEPT !.pc = "done", !.endedAt = t, !.outcome = "AbortError",
               !.retriable = retriable,
               !.retried = retriable /\ call.attempt < DEFAULT_RETRY_CONFIG.maxRetries]

\* variant of issueFetch: the signal is fresh when fetch is called
issueFetchFreshSignal(call, t) ==
  [call EXCEPT !.pc = "fetching", !.issuedAt = t, !.abortDue = t + RequestTimeoutMs]

\* fetch(url, { signal: controller.signal }) once waitForSlot has returned:
\* with a signal that is aborted already fetch rejects without a request
issueFetch(call, t) ==
  IF aborted(call, t) THEN rejected([call EXCEPT !.issuedAt = t], t)
  ELSE [call EXCEPT !.pc = "fetching", !.issuedAt = t]

\* the top of an iteration: the abort timer is armed, then waitForSlot is
\* entered, which lets the request start at once or sleeps
AttemptEnters(c, k, lastStatus) ==
  /\ ProfileWaitForSlot(c)
  /\ LET entered == [NoAttempt EXCEPT !.attempt = k, !.lastStatus = lastStatus,
                                      !.enteredAt = now, !.abortDue = now + RequestTimeoutMs]
     IN attemptCall' = [attemptCall EXCEPT ![c] =
                          IF startPc'[c] = "done" THEN issueFetch(entered, now)
                          ELSE [entered EXCEPT !.pc = "waiting"]]

\* the sleep of waitForSlot ends and fetch is called
AttemptSleepEnds(c) ==
  /\ ProfileSleepEnds(c)
  /\ attemptCall' = [attemptCall EXCEPT ![c] = issueFetch(attemptCall[c], now)]

\* the response arrives before the timer fires: clearTimeout(timeoutId)
AttemptResponds(c) ==
  /\ attemptCall[c].pc = "fetching"
  /\ ~aborted(attemptCall[c], now)
  /\ attemptCall' = [attemptCall EXCEPT ![c] =
                       [@ EXCEPT !.pc = "done", !.endedAt = now, !.outcome = "response"]]
  /\ UNCHANGED <<mainVars, retryVars, statsVars, windowVars, client, userVars, bountyVars,
                 lastStartTime, startPc, startWake, startAt>>

\* the timer fires while the request is in flight: controller.abort()
AttemptAborts(c) ==
  /\ attemptCall[c].pc = "fetching"
  /\ aborted(attemptCall[c], now)
  /\ attemptCall' = [attemptCall EXCEPT ![c] = rejected(@, now)]
  /\ UNCHANGED <<mainVars, retryVars, statsVars, windowVars, client, userVars, bountyVars,
                 lastStartTime, startPc, startWake, startAt>>

\* time passes, once every due sleep has ended and every due abort has been made
AttemptTick ==
  /\ ProfileTick
  /\ \A c \in Callers : attemptCall[c].pc = "fetching" => ~aborted(attemptCall[c], now)

AttemptInit == ProfileInit

AttemptNext ==
  \/ \E c \in 1..NumAttempts, k \in {0, DEFAULT_RETRY_CONFIG.maxRetries}, lastStatus \in {NoStatus, 404} :
       AttemptEnters(c, k, lastStatus)
  \/ \E c \in Callers : AttemptSleepEnds(c)
  \/ \E c \in Callers : AttemptResponds(c)
  \/ \E c \in Callers : AttemptAborts(c)
  \/ AttemptTick

SpecAttempt == AttemptInit /\ [][AttemptNext]_vars

\* ---------------------------------------------------------------- fetchUserBasic, fetchUserProfileV1
UserClients == {"fetchUserBasic", "fetchUserProfileV1", "fetchUserProfileV1Cached"}

UserInit ==
  /\ MainIdle /\ RetryIdle /\ StatsIdle /\ WindowIdle /\ ProfileIdle /\ BountyIdle
  /\ client \in UserClients
  /\ userParams \in UserParams
  /\ retryConfig \in (IF client = "fetchUserBasic" THEN RetryConfigs ELSE {DEFAULT_RETRY_CONFIG})
  /\ userCall = NoUserCall
  /\ profileCache \in (IF client = "fetchUserProfileV1Cached" THEN ProfileItems ELSE {NoProfileItem})
  /\ multiCall = NoMultiCall

\* the client is called: it returns the validation error or (the cached
\* client) the cached profile, or enters the loop: waitForSlot, then fetch
UserFetch ==
  /\ userCall.pc = "idle"
  /\ LET invalid == userValidation(client, userParams)
         read == [userCall EXCEPT !.reads = 1]
         cached == getCachedProfile(profileCache)
     IN userCall' = IF invalid # Null
                    THEN userReturn(userCall, Envelope(Null, invalid))
                    ELSE IF client = "fetchUserProfileV1Cached" /\ cached \notin {Null, Undefined}
                    THEN userReturn(read, Envelope(cached, Null))
                    ELSE [(IF client = "fetchUserProfileV1Cached" THEN read ELSE userCall)
                            EXCEPT !.pc = "fetching", !.slots = 1, !.requests = 1]
  /\ UNCHANGED <<client, userParams, retryConfig, profileCache, multiCall>>
  /\ UNCHANGED <<mainVars, retryVars, statsVars, windowVars, profileVars, bountyVars>>

\* the request of the current attempt settles
UserResponds(response) ==
  /\ userCall.pc = "fetching"
  /\ userCall' = userResponds(client, retryConfig, userCall, response)
  /\ profileCache' = storeProfile(client, profileCache, userCall')
  /\ UNCHANGED <<client, userParams, retryConfig, multiCall>>
  /\ UNCHANGED <<mainVars, retryVars, statsVars, windowVars, profileVars, bountyVars>>

\* the backoff sleep ends: continue
UserSleepEnds ==
  /\ userCall.pc = "sleeping"
  /\ userCall' = userNextAttempt(client, userCall, retryConfig)
  /\ UNCHANGED <<client, userParams, retryConfig, profileCache, multiCall>>
  /\ UNCHANGED <<mainVars, retryVars, statsVars, windowVars, profileVars, bountyVars>>

UserNext ==
  \/ UserFetch
  \/ \E response \in UserResponses(client) : UserResponds(response)
  \/ UserSleepEnds

SpecUser == UserInit /\ [][UserNext]_vars

\* ---------------------------------------------------------------- fetchMultipleUsersBasic
\* the retryConfig is handed on to fetchUserBasic; configs with at most one retry
MultiInit ==
  /\ MainIdle /\ RetryIdle /\ StatsIdle /\ WindowIdle /\ ProfileIdle /\ BountyIdle
  /\ client = "fetchUserBasic"
  /\ userParams \in [apiKey : ApiKeys, id : {"missing"}]
  /\ retryConfig \in {r \in RetryConfigs : r.maxRetries <= 1 /\ r.initialDelayMs = 1
                                            /\ r.maxDelayMs = 1 /\ r.backoffMultiplier = 1}
  /\ userCall = NoUserCall /\ profileCache = NoProfileItem
  /\ multiCall = NoMultiCall

\* fetchMultipleUsersBasic(apiKey, targetIds, onProgress, retryConfig) up to
\* its first await: the call of fetchUserBasic for targetIds[0]
MultiFetch(targetIds, hasProgress) ==
  /\ multiCall.pc = "idle"
  /\ LET call == [multiCall EXCEPT !.targetIds = targetIds, !.hasProgress = hasProgress] IN
     IF Len(targetIds) = 0
     THEN /\ multiCall' = multiReturn(call)
          /\ UNCHANGED userParams
     ELSE /\ multiCall' = [call EXCEPT !.pc = "awaiting", !.asked = <<targetIds[1]>>]
          /\ userParams' = [userParams EXCEPT !.id = targetIds[1]]
  /\ userCall' = NoUserCall
  /\ UNCHANGED <<client, retryConfig, profileCache>>
  /\ UNCHANGED <<mainVars, retryVars, statsVars, windowVars, profileVars, bountyVars>>

\* fetchUserBasic has returned: the rest of the loop body, then the next
\* call of fetchUserBasic or the return
MultiResumes ==
  /\ multiCall.pc = "awaiting" /\ userCall.pc = "done"
  /\ LET call == [multiCollect(multiCall, userCall.result)
                    EXCEPT !.outcomes = Append(@, userCall.result)]
     IN
     IF call.i < Len(call.targetIds)
     THEN /\ multiCall' = [call EXCEPT !.asked = Append(@, call.targetIds[call.i + 1])]
          /\ userParams' = [userParams EXCEPT !.id = call.targetIds[call.i + 1]]
     ELSE /\ multiCall' = multiReturn(call)
          /\ UNCHANGED userParams
  /\ userCall' = NoUserCall
  /\ UNCHANGED <<client, retryConfig, profileCache>>
  /\ UNCHANGED <<mainVars, retryVars, statsVars, windowVars, profileVars, bountyVars>>

MultiNext ==
  \/ \E targetIds \in TargetLists, hasProgress \in BOOLEAN : MultiFetch(targetIds, hasProgress)
  \/ multiCall.pc = "awaiting" /\ UserNext
  \/ MultiResumes

SpecMultiple == MultiInit /\ [][MultiNext]_vars

\* ---------------------------------------------------------------- fetchUserProfileV1 on RateLimiter + withRetry
\* profileRateLimiter has no timeout, so run() settles as the attempt does
\* (the limiter only delays the attempt): the attempt is the fn of withRetry
VariantInit ==
  /\ MainIdle
  /\ StatsIdle /\ WindowIdle /\ ProfileIdle /\ BountyIdle
  /\ client = "fetchUserProfileV1 on withRetry"
  /\ userParams \in UserParams
  /\ retryConfig = DEFAULT_RETRY_CONFIG /\ userCall = NoUserCall /\ profileCache = NoProfileItem
  /\ multiCall = NoMultiCall
  /\ rOpts = [maxRetries |-> MAX_RETRIES, isSuccess |-> "errorIsNull"]
  /\ rPc = "idle" /\ rAttempt = 0 /\ rLog = <<>> /\ rResult = NoResult

\* fetchUserProfileV1(params): the validation error, or withRetry(...)
VariantFetch ==
  /\ rPc = "idle"
  /\ LET invalid == userValidation(client, userParams) IN
     IF invalid # Null
     THEN /\ rPc' = "returned"
          /\ rResult' = Resolved(Envelope(Null, invalid))
     ELSE /\ rPc' = "awaiting"
          /\ UNCHANGED rResult
  /\ UNCHANGED <<rOpts, rAttempt, rLog>>
  /\ UNCHANGED <<mainVars, clientVars>>

VariantNext ==
  \/ VariantFetch
  \/ \E response \in UserResponses("fetchUserProfileV1") :
       RetrySettles(Resolved(fetchUserProfileV1OneAttempt(response)))

SpecVariant == VariantInit /\ [][VariantNext]_vars

\* ---------------------------------------------------------------- fetchBounties, fetchAllBounties, fetchBountiesByLink
BountyClients == {"fetchBounties", "fetchAllBounties", "fetchBountiesByLink"}

BountiesInit ==
  /\ MainIdle /\ RetryIdle /\ StatsIdle /\ WindowIdle /\ ProfileIdle /\ UserIdle
  /\ client \in BountyClients
  /\ bountyParams \in BountyParams
  /\ client # "fetchAllBounties" => bountyParams.limit = 100
  /\ bountyCall = NoBountyCall

\* the client is called: it returns an error for its parameters, or the
\* request of fetchBounties is made
BountiesFetch ==
  /\ bountyCall.pc = "idle"
  /\ LET invalid == IF client = "fetchBountiesByLink" THEN linkValidation(bountyParams)
                    ELSE bountiesValidation(bountyParams)
     IN bountyCall' = IF invalid # Null
                      THEN [bountyCall EXCEPT !.pc = "done", !.result = Envelope(Null, invalid)]
                      ELSE [bountyCall EXCEPT !.pc = "fetching", !.requests = 1,
                                              !.offset = IF client = "fetchBountiesByLink" THEN 100 ELSE 0,
                                              !.offsets = <<IF client = "fetchBountiesByLink" THEN 100 ELSE 0>>]
  /\ UNCHANGED <<client, bountyParams>>
  /\ UNCHANGED <<mainVars, retryVars, statsVars, windowVars, profileVars, userVars>>

\* the request settles (the API serves at most MaxPages pages with a next link)
BountiesResponds(response) ==
  /\ bountyCall.pc = "fetching"
  /\ (response.next /\ ~response.empty) => bountyCall.requests <= MaxPages
  /\ bountyCall' = bountiesResponds(client, bountyParams.limit, bountyCall, response)
  /\ UNCHANGED <<client, bountyParams>>
  /\ UNCHANGED <<mainVars, retryVars, statsVars, windowVars, profileVars, userVars>>

BountiesNext ==
  \/ BountiesFetch
  \/ \E response \in BountyResponses : BountiesResponds(response)

SpecBounties == BountiesInit /\ [][BountiesNext]_vars

\* ---------------------------------------------------------------- every endpoint client
\* one behaviour exercises one client
ClientsInit == StatsInit \/ UserInit \/ VariantInit \/ BountiesInit

ClientsNext ==
  \/ client = "fetchStats" /\ StatsNext
  \/ client \in UserClients /\ UserNext
  \/ client = "fetchUserProfileV1 on withRetry" /\ VariantNext
  \/ client \in BountyClients /\ BountiesNext

SpecClients == ClientsInit /\ [][ClientsNext]_vars


\* ---------------------------------------------------------------- properties
\* position of ticket tk in the history seq
Pos(seq, tk) == CHOOSE i \in 1..Len(seq) : seq[i] = tk
\* the stored item is a well-formed entry inside its freshness window
FreshEntry ==
  /\ storage.json = "entry"
  /\ now - storage.timestamp <= MaxStalenessMs
Invoked(c, k) == runState[c][k] # "none"
RunsOf(c) == Cardinality({k \in Attempts : Invoked(c, k)})
TotalRuns == Cardinality({tk \in Calls \X Attempts : Invoked(tk[1], tk[2])})
\* tickets taken by call c so far
TicketsOf(c) == {tk \in Range(submitted) : tk.call = c}
\* an attempt whose thunk was rejected by the timeout while run was in flight
TimedOut(tk) ==
  /\ tk \in Range(started)
  /\ tk \notin executing
  /\ runState[tk.call][tk.att] = "pending"

\* C1: at most one thunk of the limiter is executing (started and not yet
\* settled) at any instant, however many tickets are queued.
C1_OneThunkAtATime == Cardinality(executing) <= 1

C1_Witness ==
  /\ Cardinality(executing) = 1
  /\ Len(queue) >= 1
  /\ now >= cooldownUntil

\* C2: a thunk starts no sooner than cooldownMs after the settlement of the
\* previously executed thunk (success, failure or timeout alike), hence no
\* sooner than cooldownMs after the previous start.
C2_CooldownBeforeStart ==
  [][Len(started') > Len(started) =>
       /\ lastSettle = -1 \/ now' >= lastSettle + CooldownMs
       /\ lastStart = -1 \/ now' >= lastStart + CooldownMs]_vars

C2_Witness ==
  /\ Len(started) >= 2
  /\ executing # {}
  /\ lastStart = lastSettle + CooldownMs
  /\ \E tk \in Range(started) : TimedOut(tk)

\* C3: thunks start in exactly the order their run() calls were submitted.
C3_FifoStartOrder ==
  /\ Len(started) <= Len(submitted)
  /\ started = SubSeq(submitted, 1, Len(started))

C3_Witness ==
  /\ Len(started) >= 3
  /\ started[1].call # started[2].call
  /\ started[3].att >= 1

\* C4: an httpWrapper call made while the cache holds a fresh entry returns
\* {data: cached, error: null}, takes no ticket and does not invoke run.
C4_CacheShortCircuit ==
  [][\A c \in Calls :
       (pc[c] = "init" /\ pc'[c] # "init" /\ cfg.hasCache /\ FreshEntry) =>
         /\ pc'[c] = "done"
         /\ result'[c] = Resolved(Envelope(storage.value, Null))
         /\ submitted' = submitted /\ queue' = queue /\ started' = started
         /\ runState' = runState]_vars

C4_Witness ==
  \E c \in Calls :
    /\ pc[c] = "done"
    /\ TicketsOf(c) = {}
    /\ result[c] = Resolved(Envelope(StoredBefore, Null))

\* C5: a ticket that starts while the entry stored by another call's run is
\* fresh returns the cached data without invoking run; calls that all missed
\* the pre-check, with succeeding attempts and a freshness window that
\* outlasts the queue, invoke run exactly once in total.
C5_RunOnceState ==
  ( /\ cfg.hasCache
    /\ now <= MaxStalenessMs
    /\ \A c \in Calls :
         /\ pc[c] = "done"
         /\ TicketsOf(c) # {}
         /\ attempt[c] = 0
         /\ result[c].kind = "value"
         /\ result[c].value.data # Null )
  => TotalRuns = 1

C5_RecheckStep ==
  \A c \in Calls, k \in Attempts :
    ( /\ Ticket(c, k) \notin Range(started)
      /\ Ticket(c, k) \in Range(started')
      /\ cfg.hasCache /\ FreshEntry )
    => /\ runState'[c][k] = "none"
       /\ pc'[c] = "done"
       /\ result'[c] = Resolved(Envelope(storage.value, Null))

\* C5: both parts, the re-check step and the single invocation of run.
C5_RecheckServesQueuedCalls == [](C5_RunOnceState) /\ [][C5_RecheckStep]_vars

C5_Witness ==
  /\ cfg.hasCache
  /\ now <= MaxStalenessMs
  /\ \A c \in Calls : pc[c] = "done" /\ TicketsOf(c) # {} /\ attempt[c] = 0
  /\ \E c \in Calls : result[c] = Resolved(Envelope(DataOf(1), Null)) /\ c # 1
  /\ TotalRuns = 1

\* C6: a retry takes a new ticket behind every ticket waiting at that
\* moment: those tickets start before the retry does.
C6_RetryGoesToBack ==
  \A c \in Calls :
    (attempt[c] >= 1 /\ Ticket(c, attempt[c]) \in Range(started)) =>
      \A tb \in ahead[c] :
        /\ tb \in Range(started)
        /\ Pos(started, tb) < Pos(started, Ticket(c, attempt[c]))

C6_Witness ==
  \E c \in Calls :
    /\ attempt[c] >= 1
    /\ ahead[c] # {}
    /\ Ticket(c, attempt[c]) \in Range(started)

\* C7: after a run of an httpWrapper call with a cache resolved with
\* non-null data, cache.get() within maxStalenessMs returns exactly that data.
C7_WriteOnSuccess ==
  (cfg.hasCache /\ lastData.value # Null /\ now - lastData.at <= MaxStalenessMs)
  => CacheGet(getItem(backend, storage), now) = lastData.value

C7_Witness ==
  \E c \in Calls :
    /\ cfg.hasCache
    /\ pc[c] = "done"
    /\ runState[c][0] = "data"
    /\ lastData.value = DataOf(c)
    /\ now = lastData.at + MaxStalenessMs
    /\ lastData.at > 0

\* C8: an attempt whose run returns an envelope with null data, or throws,
\* leaves the stored item unchanged; a call all of whose attempts failed
\* that way has made no cache write.
C8_NoWriteState ==
  \A c \in Calls :
    ( /\ pc[c] = "done"
      /\ \A k \in Attempts : runState[c][k] \in {"none", "err", "throw"} )
    => writes[c] = 0

C8_NoWriteStep ==
  \A c \in Calls, k \in Attempts :
    (runState[c][k] = "pending" /\ runState'[c][k] \in {"err", "throw"})
    => storage' = storage

\* C8: both parts, the failing settlement and the finished call.
C8_NoWriteOnFailure == [](C8_NoWriteState) /\ [][C8_NoWriteStep]_vars

C8_Witness ==
  \E c, l \in Calls :
    /\ cfg.hasCache
    /\ caller[c] = "httpWrapper" /\ pc[c] = "done"
    /\ attempt[c] >= 1
    /\ \A k \in 0..attempt[c] : runState[c][k] \in {"err", "throw"}
    /\ runState[c][0] # runState[c][1]
    /\ caller[l] = "getOrLoad" /\ pc[l] = "done"
    /\ runState[l][0] = "throw"
    /\ writes[c] = 0 /\ writes[l] = 0
    /\ storage = NoItem

\* C9: with a cache, a limiter and retry {maxRetries >= 1, isSuccess:
\* error === null}, a call whose run throws first and resolves with data
\* second resolves with that envelope after exactly two invocations, and a
\* later call within maxStalenessMs returns the cached value without run.
C9_Config ==
  /\ cfg.hasCache /\ ~cfg.hasTimeout
  /\ cfg.maxRetries >= 1 /\ cfg.isSuccess = "errorIsNull"
C9_ThrowThenData(c) == runState[c][0] = "throw" /\ runState[c][1] = "data"

C9_ResultState ==
  \A c \in Calls :
    (C9_Config /\ C9_ThrowThenData(c)) =>
      /\ pc[c] = "done"
      /\ result[c] = Resolved(Envelope(DataOf(c), Null))
      /\ RunsOf(c) = 2

C9_LaterCallStep ==
  \A c, later \in Calls :
    ( /\ C9_Config /\ C9_ThrowThenData(c)
      /\ lastData.value = DataOf(c) /\ now - lastData.at <= MaxStalenessMs
      /\ pc[later] = "init" /\ pc'[later] # "init" )
    => /\ pc'[later] = "done"
       /\ result'[later] = Resolved(Envelope(DataOf(c), Null))
       /\ runState' = runState /\ submitted' = submitted

\* C9: both parts, the call's own result and the later call.
C9_EndToEnd == [](C9_ResultState) /\ [][C9_LaterCallStep]_vars

C9_Witness ==
  \E c, later \in Calls :
    /\ C9_Config /\ C9_ThrowThenData(c)
    /\ pc[later] = "done" /\ TicketsOf(later) = {}
    /\ result[later] = Resolved(Envelope(DataOf(c), Null))
    /\ RunsOf(c) = 2 /\ RunsOf(later) = 0

\* C10: withRetry with maxRetries = n invokes fn at most n + 1 times and not
\* again after the first invocation that succeeds, whose value it returns.
InvocationsR == Len(rLog) + (IF rPc = "awaiting" THEN 1 ELSE 0)
SucceedsR(outcome) ==
  /\ outcome.kind = "value"
  /\ rOpts.isSuccess = Undefined \/ outcome.value.error = Null

C10_BoundedEarlyStop ==
  /\ InvocationsR <= rOpts.maxRetries + 1
  /\ \A i \in 1..Len(rLog) :
       SucceedsR(rLog[i]) =>
         /\ i = Len(rLog)
         /\ rPc = "returned"
         /\ rResult = Resolved(rLog[i].value)

C10_Witness ==
  /\ rPc = "returned"
  /\ Len(rLog) = 2
  /\ rOpts.maxRetries = 2
  /\ rOpts.isSuccess = "errorIsNull"
  /\ rLog[1].kind = "throw"
  /\ SucceedsR(rLog[2])

\* C11: when every invocation of fn rejects, withRetry with maxRetries = n
\* invokes fn exactly n + 1 times and rejects with the error of the final
\* invocation.
C11_AllReject ==
  (rLog # <<>> /\ \A i \in 1..Len(rLog) : rLog[i].kind = "throw") =>
    IF Len(rLog) = rOpts.maxRetries + 1
    THEN /\ rPc = "threw"
         /\ rResult = Rejected(rLog[Len(rLog)].error)
         /\ InvocationsR = rOpts.maxRetries + 1
    ELSE /\ rPc = "awaiting"
         /\ Len(rLog) < rOpts.maxRetries + 1

C11_Witness ==
  /\ rOpts.maxRetries = 2
  /\ Len(rLog) = 3
  /\ \A i \in 1..3 : rLog[i].kind = "throw"
  /\ rLog[1].error # rLog[3].error
  /\ rPc = "threw"

\* C12: when isSuccess is supplied and every invocation of fn resolves with
\* a value failing it, withRetry with maxRetries = n invokes fn exactly
\* n + 1 times and resolves with the value of the last invocation.
C12_AllUnsuccessful ==
  ( /\ rOpts.isSuccess # Undefined
    /\ rLog # <<>>
    /\ \A i \in 1..Len(rLog) :
         rLog[i].kind = "value" /\ ~isSuccess(rOpts.isSuccess, rLog[i].value) ) =>
    IF Len(rLog) = rOpts.maxRetries + 1
    THEN /\ rPc = "returned"
         /\ rResult = Resolved(rLog[Len(rLog)].value)
         /\ InvocationsR = rOpts.maxRetries + 1
    ELSE /\ rPc = "awaiting"
         /\ Len(rLog) < rOpts.maxRetries + 1

C12_Witness ==
  /\ rOpts.maxRetries = 2
  /\ rOpts.isSuccess = "errorIsNull"
  /\ Len(rLog) = 3
  /\ \A i \in 1..3 : rLog[i].kind = "value" /\ rLog[i].value.error # Null
  /\ rLog[2].value # rLog[3].value
  /\ rPc = "returned"

\* C13: when the attempts are used up by any mixture of rejections and
\* unsuccessful values, withRetry settles as the last attempt did: it
\* rejects with that attempt's error, or resolves with that attempt's value.
C13_LastOutcomeSurfaced ==
  ( /\ Len(rLog) = rOpts.maxRetries + 1
    /\ \A i \in 1..Len(rLog) : ~SucceedsR(rLog[i]) ) =>
    LET last == rLog[Len(rLog)] IN
    /\ rResult = last
    /\ rPc = IF last.kind = "throw" THEN "threw" ELSE "returned"

C13_Witness ==
  /\ rOpts.maxRetries = 2
  /\ Len(rLog) = 3
  /\ rLog[1].kind = "throw"
  /\ rLog[2].kind = "value" /\ ~SucceedsR(rLog[2])
  /\ rLog[3].kind = "throw" /\ rLog[3].error # rLog[1].error
  /\ rPc = "threw"

\* C14: the value written by Cache.set() at time t is what get() returns at
\* every time now with now - t <= maxStalenessMs, and get() returns null at
\* every time now with now - t > maxStalenessMs, until the next set().
C14_TtlBoundary ==
  (cfg.hasCache /\ lastData.value # Null) =>
    /\ storage = CacheSet(lastData.value, lastData.at)
    /\ CacheGet(getItem(backend, storage), now) =
         IF now - lastData.at <= MaxStalenessMs THEN lastData.value ELSE Null

\* one call wrote the entry, and the thunk of a later call starts one tick
\* after the entry went stale: its re-check of the cache missed
C14_Witness ==
  \E c, later \in Calls :
    /\ cfg.hasCache
    /\ lastData.value = DataOf(c)
    /\ now = lastData.at + MaxStalenessMs + 1
    /\ CacheGet(getItem(backend, storage), now - 1) = DataOf(c)
    /\ later # c
    /\ lastStart = now
    /\ runState[later][0] = "pending"

\* the stored text is what Cache.set writes: an entry with a value and a timestamp
WellFormed(item) == item.json = "entry" /\ item.value # Undefined
\* call c went on as after a cache miss: it took a ticket or invoked load
Missed(c) == TicketsOf(c) # {} \/ runState[c][0] # "none"

\* C15: Cache.get() returns null whenever the key is missing, the stored
\* text is not a well-formed entry with a value and a timestamp, or the
\* backend throws on read, and the caller goes on as after a cache miss.
\* Stored text that no set() has replaced is the text every get() so far
\* has read, so each call made up to now must have missed.
C15_CorruptIsMiss ==
  (backend = "getThrows" \/ ~WellFormed(storage)) =>
    \A c \in Calls : pc[c] # "init" => Missed(c)

\* C15, the part the code keeps: a missing key, text that is not JSON, the
\* JSON text null and a throwing getItem are all cache misses.
C15_UnparseableIsMiss ==
  (backend = "getThrows" \/ storage.json \in {"none", "garbage", "null"}) =>
    /\ CacheGet(getItem(backend, storage), now) = Null
    /\ \A c \in Calls : pc[c] # "init" => Missed(c)

\* C16: when the storage backend throws on write, Cache.set() returns
\* normally: the stored text stays what it was, and an httpWrapper or
\* getOrLoad call whose run / load resolved with a data envelope resolves
\* with that envelope.
C16_StorageKept == backend = "setThrows" => storage' = storage
C16_EnvelopeReturned ==
  backend = "setThrows" =>
    \A c \in Calls :
      (pc[c] = "done" /\ runState[c][attempt[c]] = "data") =>
        result[c] = Resolved(Envelope(DataOf(c), Null))
C16_WriteFailureSwallowed == [](C16_EnvelopeReturned) /\ [][C16_StorageKept]_vars

C16_Witness ==
  \E c, l \in Calls :
    /\ backend = "setThrows"
    /\ storage = CacheSet(StoredBefore, 0)
    /\ caller[c] = "httpWrapper" /\ caller[l] = "getOrLoad"
    /\ pc[c] = "done" /\ pc[l] = "done"
    /\ writes[c] = 1 /\ writes[l] = 1
    /\ result[c] = Resolved(Envelope(DataOf(c), Null))
    /\ result[l] = Resolved(Envelope(DataOf(l), Null))

\* what one Cache.getOrLoad call has done so far
C17_CallState(c) ==
  caller[c] = "getOrLoad" =>
    /\ \A k \in Attempts : k >= 1 => runState[c][k] = "none"
    /\ writes[c] <= 1
    /\ writes[c] = 1 <=> runState[c][0] = "data"
    /\ (pc[c] = "done" /\ runState[c][0] # "none") =>
         result[c] = RunOutcome(c, runState[c][0])
\* the step in which getOrLoad is called
C17_CallStep(c) ==
  (pc[c] = "init" /\ caller'[c] = "getOrLoad") =>
    IF FreshEntry /\ WellFormed(storage)
    THEN runState'[c][0] = "none" /\ pc'[c] = "done"
    ELSE runState'[c][0] = "pending" /\ pc'[c] = "loading"

\* C17: per Cache.getOrLoad call, over a working backend: load is not
\* invoked if a fresh entry exists and is invoked exactly once otherwise;
\* the cache is written at most once, and exactly when load was invoked
\* and resolved with non-null data; what load settled with is returned.
C17_LoadOnceWriteOnce ==
  [][backend = "ok" => \A c \in Calls : C17_CallStep(c) /\ C17_CallState(c)']_vars

\* the timeout that applies to a run call: the per-call value when the
\* caller gave one, else the limiter's default
Applies == IF cfg.hasTimeout THEN Millis(TimeoutMs) ELSE defaultTimeoutMs
\* fn of ticket tk has been invoked and its own promise has not settled
FnInFlight(tk) == runState[tk.call][tk.att] = "pending"

\* while fn is in flight under its thunk, the applying timeout is armed for
\* timeoutMs after the invocation of fn and the clock has not passed it
C18_Armed ==
  /\ ~Applies.set => timeouts = {}
  /\ Applies.set =>
       \A tk \in executing :
         /\ [tk |-> tk, due |-> lastStart + Applies.ms] \in timeouts
         /\ now <= lastStart + Applies.ms
\* how the promise returned by run settles
C18_Step ==
  \A c \in Calls :
    LET tk == Ticket(c, attempt[c]) IN
    \* the timeout comes first
    /\ (tk \in executing /\ tk \notin executing' /\ FnInFlight(tk)') =>
         /\ Applies.set /\ now' = lastStart + Applies.ms
         /\ result'[c] = Rejected(TimeoutError)
    \* fn settles first
    /\ (tk \in executing /\ FnInFlight(tk) /\ ~FnInFlight(tk)') =>
         /\ result'[c] = RunOutcome(c, runState'[c][tk.att])
         /\ tk \notin executing'
    \* fn settles after the timeout
    /\ (tk \notin executing /\ FnInFlight(tk) /\ ~FnInFlight(tk)') =>
         /\ result[c] = Rejected(TimeoutError)
         /\ result'[c] = result[c]

\* C18: when a timeoutMs applies to a run call (per-call value before the
\* limiter default), the returned promise rejects with the timeout error
\* once fn has been in flight for timeoutMs, counted from fn's invocation;
\* if fn settles first the promise settles as fn did; a settlement of fn
\* after the timeout leaves the promise as it is, fn having run on.
C18_TimeoutFromInvocation == [](C18_Armed) /\ [][C18_Step]_vars

\* both timeouts given; call c waited in the queue, timed out, and its fn
\* resolved with data afterwards
C18_Witness ==
  \E c \in Calls :
    /\ cfg.hasTimeout /\ defaultTimeoutMs.set
    /\ waited[c]
    /\ result[c] = Rejected(TimeoutError)
    /\ runState[c][0] = "data"
    /\ lastStart > 0

\* the caller-supplied functions in flight: invoked, own promise not settled
InFlight == {tk \in Range(started) : FnInFlight(tk)}

\* C19: at any instant at most one caller-supplied fn is in flight per
\* RateLimiter instance, in every configuration, a default or per-call
\* timeoutMs included.
C19_OneFnInFlight == Cardinality(InFlight) <= 1

\* C19, the part the code keeps: without any timeout at most one fn is in
\* flight, and with one at most one fn is in flight under a running thunk.
C19_OneFnUnderThunk ==
  /\ Cardinality(InFlight \cap executing) <= 1
  /\ ~Applies.set => Cardinality(InFlight) <= 1

\* C20: run(fn) invokes fn once per call, after its ticket left the queue
\* and never again after a failure; when no timeout fires, the returned
\* promise settles with exactly the value fn resolved with or the reason
\* fn rejected with.
C20_OncePerCall ==
  /\ \A i, j \in 1..Len(started) : started[i] = started[j] => i = j
  /\ \A tk \in Range(queue) :
       tk \notin Range(started) /\ runState[tk.call][tk.att] = "none"
  /\ \A tk \in Range(submitted) :
       tk \in Range(started) <=> runState[tk.call][tk.att] # "none"
C20_Unchanged ==
  \A c \in Calls :
    pc[c] = "done" =>
      /\ Ticket(c, 0) \in Range(started)
      /\ ~Applies.set => result[c] # Rejected(TimeoutError)
      /\ result[c] # Rejected(TimeoutError) =>
           /\ runState[c][0] \in RunKinds
           /\ result[c] = RunOutcome(c, runState[c][0])
C20_RunOncePropagate == C20_OncePerCall /\ C20_Unchanged

\* a timeout applied and did not fire: one call's fn rejected after its
\* ticket had waited, the other's resolved with an error envelope
C20_Witness ==
  \E c, d \in Calls :
    /\ Applies.set
    /\ waited[c]
    /\ runState[c][0] = "throw" /\ result[c] = Rejected(RunError)
    /\ runState[d][0] = "err" /\ result[d] = Resolved(Envelope(Null, ErrorMessage))
    /\ Len(started) = 2 /\ queue = <<>>

\* what the invocations of run made by call c have settled with
Produced(c) ==
  {RunOutcome(c, runState[c][k]) : k \in {a \in Attempts : runState[c][a] \in RunKinds}}
\* the success envelopes { data: cached, error: null } that can be built
\* from what Cache.get() returns: the value of a text found at the start or
\* of an entry written since
FromCache ==
  {Resolved(Envelope(v, Null)) :
     v \in ({item.value : item \in StoredItems} \ {Null}) \cup
           {DataOf(d) : d \in {e \in Calls : \E k \in Attempts : runState[e][k] = "data"}}}

\* C21: in every configuration, with or without timeoutMs, a finished
\* httpWrapper call has settled with a success envelope built from a cached
\* value or with exactly what one of its invocations of run settled with.
C21_OnlyRunOutcomes ==
  \A c \in Calls :
    (pc[c] = "done" /\ caller[c] = "httpWrapper") =>
      result[c] \in Produced(c) \cup FromCache

\* C21 as amended: ... or, when a timeoutMs applies, with the rate
\* limiter's timeout error.
C21_RunOutcomeOrTimeout ==
  \A c \in Calls :
    (pc[c] = "done" /\ caller[c] = "httpWrapper") =>
      \/ result[c] \in Produced(c) \cup FromCache
      \/ Applies.set /\ result[c] = Rejected(TimeoutError)

\* the first attempt's run threw, the second attempt timed out
C21_Witness ==
  \E c \in Calls :
    /\ pc[c] = "done" /\ attempt[c] = 1
    /\ runState[c][0] = "throw"
    /\ TimedOut(Ticket(c, 1))
    /\ result[c] = Rejected(TimeoutError)

\* C22: within one httpWrapper call no two invocations of run are in
\* flight at the same time, in every configuration, a timeoutMs included:
\* attempt k + 1 invokes run only after attempt k's invocation has settled.
C22_AttemptsSequential ==
  \A c \in Calls : Cardinality({k \in Attempts : runState[c][k] = "pending"}) <= 1

\* C22, the part the code keeps: the thunks of one call never overlap, and
\* without an applying timeout neither do its invocations of run.
C22_ThunksSequential ==
  \A c \in Calls :
    /\ Cardinality({tk \in executing : tk.call = c}) <= 1
    /\ ~Applies.set => Cardinality({k \in Attempts : runState[c][k] = "pending"}) <= 1

\* C30: the ffScouter cache key does not depend on the order of the target
\* ids: every two lists that are permutations of each other get the same key,
\* and a fetchStats call (with a valid API key) for a permutation of a list
\* whose stats are stored and fresh returns the stored data without a request.
C30_SameKey ==
  \A i \in ffStorage :
    IsPermutation(i.ids, ffCall.targetIds) =>
      i.key = getCacheKey(i.ids) /\ getCacheKey(i.ids) = getCacheKey(ffCall.targetIds)
C30_Served ==
  (ffCall.pc # "idle" /\ ffCall.cachedBefore /\ trim(ffCall.apiKey) # "") =>
    /\ ffCall.pc = "done" /\ ffCall.requests = 0
    /\ ffCall.result.error = Null
    /\ \E i \in ffStorage : i.key = getCacheKey(ffCall.targetIds) /\ i.data = ffCall.result.data
C30_KeyOrderIndependent == C30_SameKey /\ C30_Served
C30_Witness ==
  /\ ffCall.pc = "done" /\ ffCall.cachedBefore /\ ffCall.requests = 0
  /\ ffCall.result.error = Null
  /\ \E i \in ffStorage : i.ids # ffCall.targetIds /\ IsPermutation(i.ids, ffCall.targetIds)

\* C28: the sliding-window limiter of tornUserBasic lets at most
\* maxCallsPerSecond waitForSlot calls complete within any window of windowMs
\* (from a time t up to, not including, t + windowMs), however many callers
\* are waiting.
C28_AtMostMaxPerWindow ==
  \A t \in 0..MaxTime :
    Cardinality({c \in Callers : slotPc[c] = "done" /\ slotAt[c] >= t /\ slotAt[c] < t + WindowMs})
      <= MaxCallsPerSecond

\* C29: whatever the number of concurrent fetchUserProfileV1 callers, any two
\* requests start at least RATE_LIMIT_MS apart.
C29_StartsSpaced ==
  \A b, c \in Callers :
    (b # c /\ startPc[b] = "done" /\ startPc[c] = "done" /\ startAt[b] <= startAt[c]) =>
      startAt[c] - startAt[b] >= RateLimitMs

\* what the code keeps: a request that starts without sleeping starts at least
\* RATE_LIMIT_MS after every request started before it
C29_UnsleptStartSpaced ==
  [][\A c \in Callers :
       (startPc[c] = "idle" /\ startPc'[c] = "done") =>
         \A b \in Callers : startPc[b] = "done" => startAt'[c] - startAt[b] >= RateLimitMs]_vars


\* a property of an envelope is set: neither null nor undefined
IsSet(x) == x \notin {Null, Undefined}
ExactlyOne(envelope) == IsSet(envelope.data) # IsSet(envelope.error)
IsErrorEnvelope(envelope) == envelope.data = Null /\ IsSet(envelope.error)
Blank(text) == text \in {"", " "}

\* C23: every envelope returned by httpWrapper and Cache.getOrLoad (run and
\* load themselves returning such envelopes) and by the endpoint clients has
\* exactly one of data and error set.  Stated for httpWrapper and getOrLoad
\* over any stored text.
C23_ExactlyOneSet ==
  \A c \in Calls : (pc[c] = "done" /\ result[c].kind = "value") => ExactlyOne(result[c].value)

\* what the code keeps: the endpoint clients return such envelopes on every
\* path
C23_ClientEnvelopes ==
  /\ ffCall.pc = "done" => ExactlyOne(ffCall.result)
  /\ userCall.pc = "done" => ExactlyOne(userCall.result)
  /\ bountyCall.pc = "done" => ExactlyOne(bountyCall.result)
  /\ rPc = "returned" => ExactlyOne(rResult.value)

\* C24: with an empty or blank API key, a missing target or user id, an empty
\* or missing id list (or an empty metadata link), every endpoint client
\* returns an error envelope in the step of the call, having waited for no
\* rate-limiter slot, read no cache and made no request.
C24_Stats ==
  (ffCall.pc # "idle" /\ (Blank(ffCall.apiKey) \/ ~ffCall.hasIds \/ ffCall.targetIds = <<>>)) =>
    /\ ffCall.pc = "done" /\ IsErrorEnvelope(ffCall.result)
    /\ ffCall.requests = 0 /\ ffCall.reads = 0
C24_User ==
  (userCall.pc # "idle" /\ (Blank(userParams.apiKey) \/ userParams.id = "missing")) =>
    /\ userCall.pc = "done" /\ IsErrorEnvelope(userCall.result)
    /\ userCall.slots = 0 /\ userCall.reads = 0 /\ userCall.requests = 0
C24_Variant ==
  (client = "fetchUserProfileV1 on withRetry" /\ rPc # "idle"
   /\ (Blank(userParams.apiKey) \/ userParams.id = "missing")) =>
    /\ rPc = "returned" /\ rResult.kind = "value" /\ IsErrorEnvelope(rResult.value)
    /\ rLog = <<>>
C24_Bounties ==
  (bountyCall.pc # "idle"
   /\ (Blank(bountyParams.apiKey) \/ (client = "fetchBountiesByLink" /\ Blank(bountyParams.link)))) =>
    /\ bountyCall.pc = "done" /\ IsErrorEnvelope(bountyCall.result)
    /\ bountyCall.requests = 0
NonRetriable(response) ==
  \/ response.kind = "http" /\ response.status \in 400..499 \ {429}
  \/ response.kind = "apiError"
NonRetriableEnvelopes ==
  {fetchUserProfileV1OneAttempt(r) : r \in {q \in UserResponses("fetchUserProfileV1") : NonRetriable(q)}}

\* C25: in fetchUserBasic and fetchUserProfileV1, written with their own loop
\* or on RateLimiter + withRetry, a 4xx response other than 429 and a Torn API
\* error payload end the call: its error envelope is returned and no further
\* request is made.  Stated for the variant on RateLimiter + withRetry: an
\* attempt that ended so is the last one.
C25_NotRetriedVariant ==
  \A i \in 1..Len(rLog) :
    rLog[i].value \in NonRetriableEnvelopes =>
      i = Len(rLog) /\ rPc = "returned" /\ rResult = rLog[i]

\* what the code keeps: the clients with their own loop return at once
C25_NotRetriedOwnLoop ==
  (userCall.pc # "idle" /\ NonRetriable(userCall.response)) =>
    /\ userCall.pc = "done"
    /\ userCall.result = fetchUserProfileV1OneAttempt(userCall.response)
    /\ userCall.requests = userCall.attempt + 1

\* the message an attempt that failed leaves in lastError
FailureMessage(c, response) ==
  IF response.kind = "http" THEN HttpError(response.status)
  ELSE FailedPrefix(c) \o (IF response.error.isError THEN response.error.message ELSE "Unknown error")

\* C26: when every attempt fails with a retriable condition, fetchUserBasic
\* makes exactly retryConfig.maxRetries + 1 requests and fetchUserProfileV1
\* exactly MAX_RETRIES + 1 = 4, and the envelope returned carries the last
\* attempt's message; when an attempt succeeds, its data is returned; and no
\* request is made once the call has returned.
C26_Exhausted ==
  (userCall.pc = "done" /\ userCall.requests >= 1 /\ userCall.retriable) =>
    /\ userCall.requests = retryConfig.maxRetries + 1
    /\ client = "fetchUserProfileV1" => userCall.requests = 4
    /\ userCall.result = Envelope(Null, FailureMessage(client, userCall.response))
C26_Succeeded ==
  (userCall.pc # "idle" /\ userCall.response.kind = "data") =>
    userCall.pc = "done" /\ userCall.result = Envelope(UserData, Null)
C26_NoRequestAfterReturn ==
  userCall.pc = "done" => userCall'.requests = userCall.requests /\ userCall'.result = userCall.result
C27_BackoffBeforeRetry ==
  (userCall.pc = "fetching" /\ userCall.attempt >= 1) =>
    userCall.slept = delay(retryConfig, userCall.attempt - 1)

\* what the code keeps: every sleep has that length, is capped and (the
\* multiplier being at least 1) is no shorter than the one before
C27_SleepLength ==
  userCall.pc = "sleeping" =>
    /\ userCall.slept = delay(retryConfig, userCall.attempt)
    /\ userCall.slept <= retryConfig.maxDelayMs
    /\ userCall.attempt >= 1 => userCall.slept >= delay(retryConfig, userCall.attempt - 1)

\* ---------------------------------------------------------------- C31
\* what the documentation says of an item: older than the TTL, not parseable
OlderThanTtl(raw, t) == raw.json = "entry" /\ t - raw.timestamp > CacheTtlMs
CannotBeParsed(raw) == ~Parse(raw).ok
Prefixed(items) == {it \in Range(items) : startsWith(it.key, CACHE_PREFIX)}
ClearStep(name) == clearCall'.n = clearCall.n + 1 /\ clearCall'.name = name

\* clearAllCache removes exactly the prefixed items, keeps the others, does not throw
C31_ClearAllExact ==
  [][ClearStep("clearAllCache") =>
       /\ Range(localStorage') = Range(localStorage) \ Prefixed(localStorage)
       /\ ~clearCall'.threw]_vars

\* clearExpiredCache removes exactly the prefixed items that are older than
\* the TTL or cannot be parsed, keeps the others, does not throw
C31_ClearExpiredExact ==
  [][ClearStep("clearExpiredCache") =>
       /\ Range(localStorage') =
            Range(localStorage) \ {it \in Prefixed(localStorage) :
                                     OlderThanTtl(it.raw, now) \/ CannotBeParsed(it.raw)}
       /\ ~clearCall'.threw]_vars

\* C31: clearExpiredCache removes exactly the keys starting with
\* ffscouter_cache_ whose entry is older than the TTL or cannot be parsed,
\* clearAllCache removes exactly the keys starting with that prefix, every
\* other key keeps its value, and neither operation throws.
C31_ClearRemovesExactly == C31_ClearAllExact /\ C31_ClearExpiredExact

\* ---------------------------------------------------------------- C32
\* the bounties of the pages, in the order the pages came
RECURSIVE Concatenation(_)
Concatenation(pages) ==
  IF pages = <<>> THEN <<>> ELSE Head(pages).bounties \o Concatenation(Tail(pages))

\* a page after which fetchAllBounties is to go on
HasMore(page) == page.kind = "page" /\ page.next /\ ~page.empty
\* a response that fetchBounties turns into an error envelope
IsErrorPage(page) == bountiesEnvelope(page).error # Null

\* the i-th request asks for offset (i - 1) * limit
C32_Offsets ==
  \A i \in 1..Len(bountyCall.offsets) : bountyCall.offsets[i] = (i - 1) * bountyParams.limit

\* a request is made only when every earlier one has been answered, and
\* none is made once the call is over
C32_OneAfterAnother ==
  /\ bountyCall.requests = Len(bountyCall.offsets)
  /\ Len(bountyCall.offsets) = Len(bountyCall.pages) + (IF bountyCall.pc = "fetching" THEN 1 ELSE 0)
  /\ \A i \in 1..(Len(bountyCall.offsets) - 1) : HasMore(bountyCall.pages[i])

\* the call ends with the first page that is the last one, and then returns
\* the concatenation with error null
C32_Concatenated ==
  LET pages == bountyCall.pages IN
  (bountyCall.pc = "done" /\ pages # <<>> /\ pages[Len(pages)].kind = "page") =>
    /\ ~HasMore(pages[Len(pages)])
    /\ bountyCall.result = Envelope("allBounties", Null)
    /\ bountyCall.allBounties = Concatenation(pages)

\* a page that is an error ends the call with that error and data null
C32_ErrorReturned ==
  LET pages == bountyCall.pages IN
  (pages # <<>> /\ IsErrorPage(pages[Len(pages)])) =>
    /\ bountyCall.pc = "done"
    /\ bountyCall.result = Envelope(Null, bountiesEnvelope(pages[Len(pages)]).error)

\* C32: fetchAllBounties requests pages one after another at offsets 0,
\* limit, 2*limit, ...; it stops after the first page whose next link is
\* null or whose list is empty and returns the concatenation of the pages in
\* request order with error null; after a page that is an error it makes no
\* further request and returns that error with data null.
C32_Pagination ==
  client = "fetchAllBounties" =>
    C32_Offsets /\ C32_OneAfterAnother /\ C32_Concatenated /\ C32_ErrorReturned

C32_Witness ==
  /\ client = "fetchAllBounties" /\ bountyParams.limit = 1
  /\ bountyCall.pc = "done"
  /\ bountyCall.offsets = <<0, 1, 2>>
  /\ bountyCall.pages[3].empty /\ bountyCall.pages[3].next
  /\ bountyCall.allBounties = <<"b2", "b3", "b1">>
  /\ bountyCall.result = Envelope("allBounties", Null)

\* ---------------------------------------------------------------- C33
\* the targets of ids whose fetchUserBasic succeeded, with their data, and
\* the messages of those that failed, both in the order of ids
RECURSIVE Successes(_, _)
Successes(ids, outcomes) ==
  IF ids = <<>> THEN <<>>
  ELSE (IF Head(outcomes).error = Null
        THEN <<[id |-> Head(ids), data |-> Head(outcomes).data]>> ELSE <<>>)
       \o Successes(Tail(ids), Tail(outcomes))
RECURSIVE Failures(_, _)
Failures(ids, outcomes) ==
  IF ids = <<>> THEN <<>>
  ELSE (IF Head(outcomes).error # Null
        THEN <<"User " \o idText(Head(ids)) \o ": " \o Head(outcomes).error>> ELSE <<>>)
       \o Failures(Tail(ids), Tail(outcomes))

\* fetchUserBasic is called for one id at a time, in input order, and
\* onProgress(i, total) follows the i-th
C33_OneByOneInOrder ==
  LET call == multiCall IN
  /\ Len(call.asked) = Len(call.outcomes) + (IF call.pc = "awaiting" THEN 1 ELSE 0)
  /\ \A k \in 1..Len(call.asked) : call.asked[k] = call.targetIds[k]
  /\ call.pc = "done" => Len(call.asked) = Len(call.targetIds)
  /\ call.hasProgress =>
       call.progress = [k \in 1..Len(call.outcomes) |-> <<k, Len(call.targetIds)>>]
  /\ ~call.hasProgress => call.progress = <<>>

\* what is returned
C33_Returned ==
  LET call == multiCall
      ok == Successes(call.targetIds, call.outcomes)
      failed == Failures(call.targetIds, call.outcomes)
  IN call.pc = "done" =>
       /\ call.result.data = "results" /\ call.results = ok
       /\ call.result.error = Null <=> \A k \in 1..Len(call.outcomes) : call.outcomes[k].error = Null
       /\ failed # <<>> => call.result.error = joinText(failed, "; ")
       /\ (ok # <<>> /\ failed # <<>>) => (call.results # <<>> /\ call.result.error # Null)

\* C33: fetchMultipleUsersBasic processes the target ids one at a time in
\* input order and calls onProgress(i, total) after the i-th; data lists
\* exactly the successful responses in input order; error is null iff every
\* target succeeded, otherwise it is the '; '-joined list of
\* 'User <id>: <message>' in input order, so on partial failure data is
\* non-empty and error is non-null at the same time.
C33_MultipleUsers == C33_OneByOneInOrder /\ C33_Returned

C33_Witness ==
  /\ multiCall.pc = "done"
  /\ multiCall.targetIds = <<"456", "123456">>
  /\ multiCall.progress = <<<<1, 2>>, <<2, 2>>>>
  /\ multiCall.results = <<[id |-> "123456", data |-> UserData]>>
  /\ multiCall.result = Envelope("results", "User 456: HTTP error! status: 404")

\* ---------------------------------------------------------------- C34
\* C34: every ticket enqueued by RateLimiter.run eventually starts
\* executing, provided every ticket ahead of it settles (its fn settles or
\* a timeoutMs applies to it), whether it was submitted while the limiter
\* was idle, while another thunk was executing, or during a cooldown.
C34_EveryTicketStarts ==
  \A c \in Calls :
    (Ticket(c, 0) \in Range(queue)) ~> (Ticket(c, 0) \in Range(started))

\* every call's ticket has started, one of them after it had to wait with
\* no ticket ahead (pushed while a thunk was executing or during the cooldown)
C34_Witness ==
  /\ Len(started) = NumCalls
  /\ \E c \in Calls : waited[c] /\ ahead[c] = {} /\ Ticket(c, 0) \in Range(started)

\* ---------------------------------------------------------------- C35
\* a Cache.getOrLoad call is awaiting its load
Loading(c) == caller[c] = "getOrLoad" /\ pc[c] = "loading"

\* a getOrLoad call that finds no fresh entry while another call's load is
\* in flight invokes its own load, and nothing is written at that point
C35_MissLoadsAgain ==
  \A c \in Calls :
    (/\ pc[c] = "init" /\ caller'[c] = "getOrLoad"
     /\ \E d \in Calls : Loading(d)
     /\ CacheGet(getItem(backend, storage), now) = Null) =>
      /\ Loading(c)' /\ runState'[c][0] = "pending"
      /\ \A d \in Calls : Loading(d) => Loading(d)' /\ runState'[d][0] = "pending"
      /\ storage' = storage

\* a load that completes with data replaces whatever an overlapping load stored
C35_CompletionWrites ==
  \A c \in Calls :
    (Loading(c) /\ pc'[c] = "done" /\ runState'[c][0] = "data") =>
      storage' = CacheSet(DataOf(c), now)

\* C35: Cache.getOrLoad does not deduplicate concurrent loads: overlapping
\* getOrLoad calls on the same key that find no fresh entry each invoke
\* their load before either writes the cache, and the entry finally stored
\* is that of the load that completes last.
C35_NoDeduplication == [][C35_MissLoadsAgain /\ C35_CompletionWrites]_vars

\* both calls loaded and wrote while every entry written was still fresh
\* (so the loads overlapped); the entry is that of the first call, whose
\* load completed last
C35_Witness ==
  /\ now <= MaxStalenessMs
  /\ caller[1] = "getOrLoad" /\ caller[2] = "getOrLoad"
  /\ pc[1] = "done" /\ pc[2] = "done"
  /\ writes[1] = 1 /\ writes[2] = 1
  /\ storage = CacheSet(DataOf(1), now)
  /\ storage # CacheSet(DataOf(2), now)

\* ---------------------------------------------------------------- C36
\* C36: in httpWrapper with a timeoutMs, an attempt whose ticket was
\* rejected by the limiter timeout still writes to the cache if its run
\* later resolves with non-null data; what the caller was given stays as it
\* is, and the entry serves later calls.
C36_LateWrite ==
  [][\A c \in Calls, k \in Attempts :
       (cfg.hasCache /\ TimedOut(Ticket(c, k)) /\ runState'[c][k] = "data") =>
         /\ storage' = CacheSet(DataOf(c), now)
         /\ writes'[c] = writes[c] + 1
         /\ pc[c] = "done" => (pc'[c] = "done" /\ result'[c] = result[c])]_vars

\* call 1 was rejected with the timeout error, its run resolved afterwards,
\* and call 2 was served that payload from the cache without a run
C36_Witness ==
  /\ cfg.hasCache /\ cfg.hasTimeout
  /\ pc[1] = "done" /\ result[1] = Rejected(TimeoutError)
  /\ runState[1][0] = "data" /\ writes[1] = 1
  /\ pc[2] = "done" /\ result[2] = Resolved(Envelope(DataOf(1), Null))
  /\ RunsOf(2) = 0

\* ---------------------------------------------------------------- C37
\* the ticket started last was served by the re-check: run was not invoked
LastServedByRecheck(st, rs) ==
  /\ st # <<>>
  /\ rs[st[Len(st)].call][st[Len(st)].att] = "none"

\* the step in which a ticket is started and served by the re-check: it is
\* the only thunk, and its completion opens a cooldown
C37_ServedTakesTheSlot ==
  (Len(started') > Len(started) /\ LastServedByRecheck(started', runState')) =>
    /\ executing = {} /\ executing' = {}
    /\ Len(started') = Len(started) + 1
    /\ lastSettle' = now /\ cooldownUntil' = now + CooldownMs
    /\ ~isProcessing'

\* the ticket that starts after one served by the re-check
C37_NextAfterCooldown ==
  (Len(started') > Len(started) /\ LastServedByRecheck(started, runState)) =>
    /\ lastSettle = lastStart
    /\ now' >= lastSettle + CooldownMs

\* C37: an httpWrapper ticket that is served by the post-queue cache
\* re-check (run is not invoked) still counts as an execution of the
\* limiter: it occupies the single slot and the next ticket cannot start
\* until cooldownMs after it completed.
C37_RecheckCountsAsExecution == [][C37_ServedTakesTheSlot /\ C37_NextAfterCooldown]_vars

\* the second ticket was served by the re-check; the retry of call 1 has
\* started after it and was served by the re-check in turn
C37_Witness ==
  /\ Len(started) = 3
  /\ runState[started[2].call][started[2].att] = "none"
  /\ lastStart = now
  /\ cooldownUntil = now + CooldownMs
  /\ Ticket(1, 1) = started[3]

\* ---------------------------------------------------------------- C38
\* the tickets of call c that are queued or executing
InLimiter(c) == {tk \in Range(queue) \cup executing : tk.call = c}

C38_CallState(c) ==
  /\ Cardinality(InLimiter(c)) <= 1
  /\ Cardinality(TicketsOf(c)) <= cfg.maxRetries + 1
  /\ RunsOf(c) <= Cardinality(TicketsOf(c))

\* a call that finds a fresh entry at once takes no ticket, and a call that
\* has returned takes no further one
C38_CallStep(c) ==
  /\ (pc[c] = "init" /\ pc'[c] # "init" /\ cfg.hasCache /\ FreshEntry) =>
       (pc'[c] = "done" /\ TicketsOf(c)' = {})
  /\ pc[c] = "done" => TicketsOf(c)' = TicketsOf(c)

\* C38: one httpWrapper call never has more than one of its own tickets
\* queued or executing in the limiter at the same time, and over its
\* lifetime enqueues at most retry.maxRetries + 1 tickets (zero on a
\* pre-check cache hit); the number of run invocations never exceeds the
\* number of tickets it enqueued.
C38_TicketsPerCall ==
  /\ [](\A c \in Calls : C38_CallState(c))
  /\ [][\A c \in Calls : C38_CallStep(c)]_vars

\* a call that used every retry: two tickets, one after the other, and two
\* invocations of run, while the other call took none
C38_Witness ==
  /\ cfg.maxRetries = 1 /\ cfg.hasCache
  /\ \E c \in Calls :
       /\ pc[c] = "done" /\ Cardinality(TicketsOf(c)) = 2 /\ RunsOf(c) = 2
       /\ \E d \in Calls : pc[d] = "done" /\ TicketsOf(d) = {}

\* ---------------------------------------------------------------- C39
\* an Error was thrown whose message carries none of the signatures (and
\* which is no AbortError)
PlainThrow(response) ==
  /\ response.kind \in {"fetchThrows", "jsonThrows"}
  /\ response.error.isError
  /\ ~includesSignature(response.error.message)
  /\ response.error.name # "AbortError"

\* the step in which an attempt that may still be retried ends with such a throw
PlainThrowStep ==
  /\ userCall.pc = "fetching" /\ userCall' # userCall
  /\ userCall.attempt < retryConfig.maxRetries
  /\ PlainThrow(userCall'.response)

\* the claim as it stands: retried exactly when an earlier attempt of the
\* call received 429/500/502/503
C39_EarlierStatusDecides ==
  [][PlainThrowStep =>
       (userCall'.pc = "sleeping"
        <=> \E i \in 1..Len(userCall.received) : userCall.received[i] \in RetriableStatuses)]_vars

\* C39: in fetchUserBasic and fetchUserProfileV1 the retry decision for a
\* thrown error uses the HTTP status the call remembers: a thrown error
\* whose message matches no network/timeout signature is retried when the
\* status received last, in the failing attempt itself or else in an
\* earlier attempt, is 429/500/502/503, and is not retried otherwise.
C39_LastStatusDecides ==
  [][PlainThrowStep =>
       (userCall'.pc = "sleeping"
        <=> /\ userCall'.received # <<>>
            /\ userCall'.received[Len(userCall'.received)] \in RetriableStatuses)]_vars

\* fetch threw 'Load failed' after an attempt that got a 503: a retry follows
C39_Witness ==
  /\ userCall.pc = "sleeping" /\ userCall.attempt = 1
  /\ userCall.response = Response("fetchThrows", NoStatus, LoadFailed)
  /\ userCall.received = <<503>>

\* ---------------------------------------------------------------- C40
\* the abort timer runs from the top of the iteration, not from the fetch
C40_ArmedBeforeWait ==
  \A c \in Callers :
    attemptCall[c].pc # "idle" =>
      attemptCall[c].abortDue = attemptCall[c].enteredAt + RequestTimeoutMs

\* an attempt that waited REQUEST_TIMEOUT_MS or longer for its slot
WaitedOut(call) == call.issuedAt # -1 /\ call.issuedAt - call.enteredAt >= RequestTimeoutMs

\* C40: in fetchUserProfileV1 the 250ms abort timer of an attempt is armed
\* before the attempt waits for its rate-limit slot, so an attempt that
\* waits 250ms or longer for the slot calls fetch with an already-aborted
\* signal and spends no time on the network before it is counted as a
\* timed-out, retriable attempt.
C40_LongWaitIsATimeout ==
  /\ C40_ArmedBeforeWait
  /\ \A c \in Callers :
       WaitedOut(attemptCall[c]) =>
         /\ attemptCall[c].pc = "done"
         /\ attemptCall[c].outcome = "AbortError"
         /\ attemptCall[c].endedAt = attemptCall[c].issuedAt
         /\ attemptCall[c].retriable
         /\ attemptCall[c].retried <=> attemptCall[c].attempt < DEFAULT_RETRY_CONFIG.maxRetries

\* an attempt slept RATE_LIMIT_MS in waitForSlot and was retried as a
\* timeout the moment it called fetch
C40_Witness ==
  \E c \in Callers :
    /\ WaitedOut(attemptCall[c])
    /\ attemptCall[c].issuedAt - attemptCall[c].enteredAt = RateLimitMs
    /\ attemptCall[c].outcome = "AbortError"
    /\ attemptCall[c].endedAt = attemptCall[c].issuedAt
    /\ attemptCall[c].retried

====
